---- MODULE Spec2Model ----
(***************************************************************************)
(* SuggestGuard: the snapshot diff engine (analyzers/diff.py), the         *)
(* suggestion store (database.py) and the scan orchestrator (scanner.py).  *)
(*                                                                         *)
(* A text is a tuple of characters (one-character strings, with the        *)
(* Turkish letters spelled out as "I_dot" and "i_dotless" and the tab as   *)
(* "TAB").  Python's None is the value None below; a missing "position"    *)
(* key reads as None through dict.get, so both are the same value here.    *)
(***************************************************************************)
EXTENDS Integers, Sequences, FiniteSets, TLC

VARIABLES
    brands,               \* brands table: brand id -> [name, active]
    snapshots,            \* snapshots table: row id -> [brand_id, taken_at]
    suggestions,          \* suggestions table: row id -> row
    clock,                \* the wall clock read by Database._now()
    pc,                   \* position of the running operation
    brand_id,             \* scan_brand: the brand being scanned
    raw_results,          \* scan_brand: what collect_brand returned
    unique_suggestions,   \* scan_brand: deduplicated surface texts
    previous_suggestions, \* scan_brand: rows read before writing
    snapshot_id,          \* scan_brand: id returned by add_snapshot
    current_suggestions,  \* scan_brand: records built by the upsert loop
    prev_for_diff,        \* compare_snapshots: argument previous
    curr_for_diff,        \* compare_snapshots: argument current
    diff,                 \* compare_snapshots: the returned report
    report,               \* scan_brand: the returned report
    last_upsert,          \* upsert_suggestion: arguments and result of the last call
    events,               \* store events of the running scan, in order
    alerts_invoked,       \* scan_brand: _send_alerts was awaited in this scan
    notifiers,            \* _send_alerts: what get_notifiers returned
    alert_log,            \* _send_alerts: one entry per notifier gone through
    all_pc,               \* position of scan_all
    listing,              \* scan_all: the brands list_brands returned
    reports,              \* scan_all: the reports appended so far
    collect_pc,           \* position of collect_brand
    max_workers,          \* AutocompleteCollector.max_workers
    request_delay,        \* AutocompleteCollector.request_delay
    queries,              \* collect_brand: the query variants of all keywords
    unique_queries,       \* collect_brand: queries without repeats
    sem_value,            \* collect_brand: free permits of the semaphore
    tasks,                \* collect_brand: the _fetch task of each unique query
    results,              \* collect_brand: the results appended so far
    frames,               \* concurrent scan_brand tasks: the locals of each
    running,              \* the task the event loop is running, or None
    store_log,            \* store operations of the concurrent tasks, in order
    trends                \* what the last detect_trends call returned

vars == <<brands, snapshots, suggestions, clock, pc, brand_id, raw_results,
          unique_suggestions, previous_suggestions, snapshot_id,
          current_suggestions, prev_for_diff, curr_for_diff, diff,
          report, last_upsert, events, alerts_invoked, notifiers, alert_log,
          all_pc, listing, reports, collect_pc, max_workers, request_delay,
          queries, unique_queries, sem_value, tasks, results,
          frames, running, store_log, trends>>

None == -1

\* ---------------------------------------------------------------- bounds
MaxDiffLen == 2      \* longest list handed to compare_snapshots directly
MaxSnapshots == 3    \* snapshot rows written by scans in one behaviour
MaxQueries == 2      \* queries answered by one collect_brand
MaxRaw == 3          \* suggestion texts returned by one collect_brand
MaxClock == 1        \* clock ticks in one behaviour
MaxSeen == 3         \* cap on times_seen for direct upsert calls
MaxDbSnapshots == 1  \* snapshot rows written by direct add_snapshot calls
MaxVariants == 3     \* query variants generated for one brand
MaxWorkers == 2      \* largest max_workers of a collector

\* ------------------------------------------------------------- sequences
Range(s) == {s[i] : i \in DOMAIN s}

SeqsUpTo(S, n) == UNION {[1..k -> S] : k \in 0..n}

RECURSIVE Flatten(_)
Flatten(ss) == IF ss = <<>> THEN <<>> ELSE Head(ss) \o Flatten(Tail(ss))

\* ---------------------------------------------- TurkishTextProcessor
\* _TR_LOWER replacements, then str.lower() on the rest.
LowerChar(c) ==
    CASE c = "I_dot" -> "i"
      [] c = "I" -> "i_dotless"
      [] c = "A" -> "a"
      [] c = "B" -> "b"
      [] OTHER -> c

IsSpace(c) == c \in {" ", "TAB"}

\* _WS_RE.sub(" ", text): every run of whitespace becomes one space.
RECURSIVE CollapseWs(_)
CollapseWs(t) ==
    IF t = <<>> THEN <<>>
    ELSE IF IsSpace(Head(t))
         THEN IF Tail(t) # <<>> /\ IsSpace(Head(Tail(t)))
              THEN CollapseWs(Tail(t))
              ELSE <<" ">> \o CollapseWs(Tail(t))
         ELSE <<Head(t)>> \o CollapseWs(Tail(t))

\* str.strip() after the collapse: at most one space at each end.
Strip(t) ==
    LET a == IF t # <<>> /\ IsSpace(Head(t)) THEN Tail(t) ELSE t
    IN IF a # <<>> /\ IsSpace(a[Len(a)]) THEN SubSeq(a, 1, Len(a) - 1) ELSE a

normalize(text) ==
    Strip(CollapseWs([i \in DOMAIN text |-> LowerChar(text[i])]))

\* ------------------------------------------------ DiffAnalyzer
Keys(list) == {list[i].text : i \in DOMAIN list}

\* {s["text"]: s for s in list}: a later record replaces an earlier one.
TextMap(list) ==
    [t \in Keys(list) |->
        list[CHOOSE i \in DOMAIN list :
                /\ list[i].text = t
                /\ \A j \in DOMAIN list : j > i => list[j].text # t]]

IsMovedNoNullCheck(old_pos, new_pos) == old_pos # new_pos

\* the test of diff.py line 63
IsMoved(old_pos, new_pos) ==
    old_pos # None /\ new_pos # None /\ old_pos # new_pos

NoDiff ==
    [new_suggestions |-> <<>>, disappeared |-> <<>>,
     position_changes |-> <<>>, unchanged |-> <<>>,
     summary |-> [new_count |-> 0, disappeared_count |-> 0,
                  position_change_count |-> 0, unchanged_count |-> 0,
                  total_previous |-> 0, total_current |-> 0]]

Reverse(s) == [i \in DOMAIN s |-> s[Len(s) + 1 - i]]

compare_snapshots_key_totals(previous, current) ==
    LET prev_map == TextMap(previous)
        curr_map == TextMap(current)
        prev_texts == DOMAIN prev_map
        curr_texts == DOMAIN curr_map
        new_texts == curr_texts \ prev_texts
        gone_texts == prev_texts \ curr_texts
        common_texts == prev_texts \cap curr_texts
        InNew(s) == s.text \in new_texts
        InGone(s) == s.text \in gone_texts
        Moved(s) == /\ s.text \in common_texts
                    /\ IsMoved(prev_map[s.text].position, s.position)
        Same(s) == /\ s.text \in common_texts
                   /\ ~IsMoved(prev_map[s.text].position, s.position)
        new_suggestions == SelectSeq(current, InNew)
        disappeared == SelectSeq(previous, InGone)
        moved == SelectSeq(current, Moved)
        position_changes ==
            [i \in DOMAIN moved |->
                [text |-> moved[i].text,
                 old_position |-> prev_map[moved[i].text].position,
                 new_position |-> moved[i].position]]
        unchanged == SelectSeq(current, Same)
    IN [new_suggestions |-> new_suggestions,
        disappeared |-> disappeared,
        position_changes |-> position_changes,
        unchanged |-> unchanged,
        summary |-> [new_count |-> Len(new_suggestions),
                     disappeared_count |-> Len(disappeared),
                     position_change_count |-> Len(position_changes),
                     unchanged_count |-> Len(unchanged),
                     total_previous |-> Cardinality(prev_texts),
                     total_current |-> Cardinality(curr_texts)]]

compare_snapshots_latest_first(previous, current) ==
    LET prev_map == TextMap(previous)
        curr_map == TextMap(current)
        prev_texts == DOMAIN prev_map
        curr_texts == DOMAIN curr_map
        new_texts == curr_texts \ prev_texts
        gone_texts == prev_texts \ curr_texts
        common_texts == prev_texts \cap curr_texts
        InNew(s) == s.text \in new_texts
        InGone(s) == s.text \in gone_texts
        Moved(s) == /\ s.text \in common_texts
                    /\ IsMoved(prev_map[s.text].position, s.position)
        Same(s) == /\ s.text \in common_texts
                   /\ ~IsMoved(prev_map[s.text].position, s.position)
        new_suggestions == Reverse(SelectSeq(current, InNew))
        disappeared == Reverse(SelectSeq(previous, InGone))
        moved == Reverse(SelectSeq(current, Moved))
        position_changes ==
            [i \in DOMAIN moved |->
                [text |-> moved[i].text,
                 old_position |-> prev_map[moved[i].text].position,
                 new_position |-> moved[i].position]]
        unchanged == Reverse(SelectSeq(current, Same))
    IN [new_suggestions |-> new_suggestions,
        disappeared |-> disappeared,
        position_changes |-> position_changes,
        unchanged |-> unchanged,
        summary |-> [new_count |-> Len(new_suggestions),
                     disappeared_count |-> Len(disappeared),
                     position_change_count |-> Len(position_changes),
                     unchanged_count |-> Len(unchanged),
                     total_previous |-> Len(previous),
                     total_current |-> Len(current)]]

compare_snapshots(previous, current) ==
    LET prev_map == TextMap(previous)
        curr_map == TextMap(current)
        prev_texts == DOMAIN prev_map
        curr_texts == DOMAIN curr_map
        new_texts == curr_texts \ prev_texts
        gone_texts == prev_texts \ curr_texts
        common_texts == prev_texts \cap curr_texts
        InNew(s) == s.text \in new_texts
        InGone(s) == s.text \in gone_texts
        Moved(s) == /\ s.text \in common_texts
                    /\ IsMoved(prev_map[s.text].position, s.position)
        Same(s) == /\ s.text \in common_texts
                   /\ ~IsMoved(prev_map[s.text].position, s.position)
        new_suggestions == SelectSeq(current, InNew)
        disappeared == SelectSeq(previous, InGone)
        moved == SelectSeq(current, Moved)
        position_changes ==
            [i \in DOMAIN moved |->
                [text |-> moved[i].text,
                 old_position |-> prev_map[moved[i].text].position,
                 new_position |-> moved[i].position]]
        unchanged == SelectSeq(current, Same)
    IN [new_suggestions |-> new_suggestions,
        disappeared |-> disappeared,
        position_changes |-> position_changes,
        unchanged |-> unchanged,
        summary |-> [new_count |-> Len(new_suggestions),
                     disappeared_count |-> Len(disappeared),
                     position_change_count |-> Len(position_changes),
                     unchanged_count |-> Len(unchanged),
                     total_previous |-> Len(previous),
                     total_current |-> Len(current)]]

\* ------------------------------------------------------- Database
\* add_snapshot: the table after the committed INSERT; the new id is its length.
add_snapshot(rows, b, now) == Append(rows, [brand_id |-> b, taken_at |-> now])

\* get_latest_snapshot: ORDER BY id DESC LIMIT 1, None when the brand has none.
get_latest_snapshot(b) ==
    LET ids == {i \in DOMAIN snapshots : snapshots[i].brand_id = b}
    IN IF ids = {} THEN None ELSE CHOOSE i \in ids : \A j \in ids : j <= i

ExistingIdsAnyBrand(rows, b, t) == {i \in DOMAIN rows : rows[i].text = t}

\* SELECT id, times_seen ... WHERE brand_id = ? AND text = ?
ExistingIds(rows, b, t) ==
    {i \in DOMAIN rows : rows[i].brand_id = b /\ rows[i].text = t}

upsert_always_insert(rows, sid, b, t, pos, sent, now) ==
    [rows |-> Append(rows, [snapshot_id |-> sid, brand_id |-> b, text |-> t,
                            position |-> pos, sentiment |-> sent,
                            first_seen |-> now, last_seen |-> now,
                            times_seen |-> 1]),
     id |-> Len(rows) + 1,
     existed |-> FALSE]

upsert_resets_first_seen(rows, sid, b, t, pos, sent, now) ==
    LET ids == ExistingIds(rows, b, t)
        id == CHOOSE i \in ids : \A j \in ids : i <= j
    IN IF ids # {}
       THEN [rows |-> [rows EXCEPT ![id] =
                          [@ EXCEPT !.snapshot_id = sid, !.position = pos,
                                    !.sentiment = sent, !.first_seen = now,
                                    !.last_seen = now,
                                    !.times_seen = @ + 1]],
             id |-> id, existed |-> TRUE]
       ELSE upsert_always_insert(rows, sid, b, t, pos, sent, now)

\* upsert_suggestion: the table after the call, the returned id, and whether
\* the UPDATE branch ran.  sentiment_score and category are written beside
\* sentiment and read by nothing modelled here.
upsert_suggestion(rows, sid, b, t, pos, sent, now) ==
    LET ids == ExistingIds(rows, b, t)
        id == CHOOSE i \in ids : \A j \in ids : i <= j
    IN IF ids # {}
       THEN [rows |-> [rows EXCEPT ![id] =
                          [@ EXCEPT !.snapshot_id = sid, !.position = pos,
                                    !.sentiment = sent, !.last_seen = now,
                                    !.times_seen = @ + 1]],
             id |-> id, existed |-> TRUE]
       ELSE [rows |-> Append(rows, [snapshot_id |-> sid, brand_id |-> b,
                                    text |-> t, position |-> pos,
                                    sentiment |-> sent, first_seen |-> now,
                                    last_seen |-> now, times_seen |-> 1]),
             id |-> Len(rows) + 1,
             existed |-> FALSE]

get_suggestions_of_latest_snapshot(b) ==
    LET ids == {i \in DOMAIN suggestions :
                  /\ suggestions[i].brand_id = b
                  /\ suggestions[i].snapshot_id = get_latest_snapshot(b)}
        n == Cardinality(ids)
    IN {[k \in 1..n |-> suggestions[f[k]]] :
          f \in {g \in [1..n -> ids] :
                   /\ \A x, y \in 1..n : x # y => g[x] # g[y]
                   /\ \A x, y \in 1..n :
                        x < y => suggestions[g[x]].last_seen
                                   >= suggestions[g[y]].last_seen}}

\* get_suggestions_for_brand(brand_id): every row of the brand, ORDER BY
\* last_seen DESC.  SQL leaves the order of rows with equal last_seen open,
\* so this is the set of all listings the query may return.
get_suggestions_for_brand(b) ==
    LET ids == {i \in DOMAIN suggestions : suggestions[i].brand_id = b}
        n == Cardinality(ids)
    IN {[k \in 1..n |-> suggestions[f[k]]] :
          f \in {g \in [1..n -> ids] :
                   /\ \A x, y \in 1..n : x # y => g[x] # g[y]
                   /\ \A x, y \in 1..n :
                        x < y => suggestions[g[x]].last_seen
                                   >= suggestions[g[y]].last_seen}}

\* get_suggestions_for_brand(brand_id, sentiment=...): the rows of the
\* brand with that sentiment, ORDER BY last_seen DESC; every listing the
\* query may return.
get_suggestions_for_brand_with(b, sent) ==
    LET ids == {i \in DOMAIN suggestions :
                  /\ suggestions[i].brand_id = b
                  /\ suggestions[i].sentiment = sent}
        n == Cardinality(ids)
    IN {[k \in 1..n |-> suggestions[f[k]]] :
          f \in {g \in [1..n -> ids] :
                   /\ \A x, y \in 1..n : x # y => g[x] # g[y]
                   /\ \A x, y \in 1..n :
                        x < y => suggestions[g[x]].last_seen
                                   >= suggestions[g[y]].last_seen}}

\* Timestamps are counted in ticks of half a day: the "%Y-%m-%d %H:%M:%S"
\* strings of _now() compare as the instants they name.
TicksPerDay == 2

\* DATE(ts), strftime("%Y-%m-%d"): the calendar day of an instant
DateOf(ts) == ts \div TicksPerDay

\* datetime.now() - timedelta(days=days)
CutoffAt(now, days) == now - days * TicksPerDay

\* the listings of the rows ids in descending order of key, a column given
\* as a function of the row id; rows with equal keys come in any order
\* (ORDER BY ... DESC)
ListingsDesc(ids, key) ==
    LET n == Cardinality(ids)
    IN {[k \in 1..n |-> suggestions[f[k]]] :
          f \in {g \in [1..n -> ids] :
                   /\ \A x, y \in 1..n : x # y => g[x] # g[y]
                   /\ \A x, y \in 1..n : x < y => key[g[x]] >= key[g[y]]}}

FirstSeenOf == [i \in DOMAIN suggestions |-> suggestions[i].first_seen]

LastSeenOf == [i \in DOMAIN suggestions |-> suggestions[i].last_seen]

get_recently_seen_suggestions(b, since_days) ==
    ListingsDesc({i \in DOMAIN suggestions :
                    /\ suggestions[i].brand_id = b
                    /\ suggestions[i].last_seen
                          >= CutoffAt(clock, since_days)},
                 FirstSeenOf)

\* get_new_suggestions(brand_id, since_days): WHERE brand_id = ? AND
\* first_seen >= cutoff ORDER BY first_seen DESC
get_new_suggestions(b, since_days) ==
    ListingsDesc({i \in DOMAIN suggestions :
                    /\ suggestions[i].brand_id = b
                    /\ suggestions[i].first_seen
                          >= CutoffAt(clock, since_days)},
                 FirstSeenOf)

get_suggestions_not_seen_since(b, not_seen_days) ==
    ListingsDesc({i \in DOMAIN suggestions :
                    /\ suggestions[i].brand_id = b
                    /\ suggestions[i].last_seen
                          <= CutoffAt(clock, not_seen_days)},
                 LastSeenOf)

\* get_disappeared_suggestions(brand_id, not_seen_days): WHERE brand_id = ?
\* AND last_seen < cutoff ORDER BY last_seen DESC
get_disappeared_suggestions(b, not_seen_days) ==
    ListingsDesc({i \in DOMAIN suggestions :
                    /\ suggestions[i].brand_id = b
                    /\ suggestions[i].last_seen
                          < CutoffAt(clock, not_seen_days)},
                 LastSeenOf)

\* the counts of the rows ids grouped by day, a function of the row id,
\* in ascending order of day
DailyRows(ids, day) ==
    LET dates == {day[i] : i \in ids}
        n == Cardinality(dates)
        order == CHOOSE f \in [1..n -> dates] :
                    \A x, y \in 1..n : x < y => f[x] < f[y]
        On(d) == {i \in ids : day[i] = d}
        With(d, sent) == {i \in On(d) : suggestions[i].sentiment = sent}
    IN [k \in 1..n |->
          [date |-> order[k],
           negative |-> Cardinality(With(order[k], "negative")),
           positive |-> Cardinality(With(order[k], "positive")),
           neutral |-> Cardinality(With(order[k], "neutral")),
           total |-> Cardinality(On(order[k]))]]

FirstSeenDate ==
    [i \in DOMAIN suggestions |-> DateOf(suggestions[i].first_seen)]

LastSeenDate ==
    [i \in DOMAIN suggestions |-> DateOf(suggestions[i].last_seen)]

get_daily_counts_by_last_seen(b, days) ==
    DailyRows({i \in DOMAIN suggestions :
                 /\ suggestions[i].brand_id = b
                 /\ DateOf(suggestions[i].last_seen)
                       >= DateOf(CutoffAt(clock, days))},
              LastSeenDate)

get_daily_counts_of_any_brand(b, days) ==
    DailyRows({i \in DOMAIN suggestions :
                 DateOf(suggestions[i].first_seen)
                    >= DateOf(CutoffAt(clock, days))},
              FirstSeenDate)

\* get_daily_sentiment_counts(brand_id, days): WHERE brand_id = ? AND
\* DATE(first_seen) >= cutoff date GROUP BY DATE(first_seen) ORDER BY
\* DATE(first_seen)
get_daily_sentiment_counts(b, days) ==
    DailyRows({i \in DOMAIN suggestions :
                 /\ suggestions[i].brand_id = b
                 /\ DateOf(suggestions[i].first_seen)
                       >= DateOf(CutoffAt(clock, days))},
              FirstSeenDate)

\* ------------------------------------------------ SentimentAnalyzer
IsPrefix(p, t) == Len(p) <= Len(t) /\ SubSeq(t, 1, Len(p)) = p

\* kw in text
Contains(t, kw) ==
    \E k \in 0..(Len(t) - Len(kw)) : SubSeq(t, k + 1, k + Len(kw)) = kw

\* str.replace(sub, ""): every occurrence, left to right.
RECURSIVE Remove(_, _)
Remove(t, sub) ==
    IF t = <<>> \/ sub = <<>> THEN t
    ELSE IF IsPrefix(sub, t)
         THEN Remove(SubSeq(t, Len(sub) + 1, Len(t)), sub)
         ELSE <<Head(t)>> \o Remove(Tail(t), sub)

\* The keywords that can occur in the texts of Surfaces; a keyword is one
\* character of the alphabet here.
NegativeKeywords == {<<"sahte">>}
PositiveKeywords == {<<"harika">>}

\* analyze(text, brand_name)["sentiment"]
analyze(text, brand_name) ==
    LET cleaned == Strip(Remove(normalize(text), normalize(brand_name)))
    IN IF \E kw \in NegativeKeywords : Contains(cleaned, kw) THEN "negative"
       ELSE IF \E kw \in PositiveKeywords : Contains(cleaned, kw) THEN "positive"
       ELSE "neutral"

\* ------------------------------------------------------ ScanEngine
\* The surface texts the collector returns.
Surfaces == {<<"I">>, <<"i_dotless", " ">>, <<"sahte">>}

\* The results of at most q queries holding at most n texts in all.
RECURSIVE RawUpTo(_, _, _)
RawUpTo(S, q, n) ==
    IF q = 0 THEN {<<>>}
    ELSE {<<>>} \cup
         UNION {{<<[suggestions |-> s]>> \o r :
                    r \in RawUpTo(S, q - 1, n - Len(s))} :
                  s \in SeqsUpTo(S, n)}

RawResults == RawUpTo(Surfaces, MaxQueries, MaxRaw)

\* More surface forms for the deduplication alone: two spellings of the
\* normalised text "a b", and the dotted i beside the dotless one.
DedupSurfaces ==
    Surfaces \cup {<<"i">>, <<"A", " ", "TAB", "b">>, <<" ", "a", "TAB", "B">>}

DedupRawResults == RawUpTo(DedupSurfaces, MaxQueries, MaxRaw)

RECURSIVE DedupFromRawKey(_, _, _)
DedupFromRawKey(texts, seen, unique) ==
    IF texts = <<>> THEN unique
    ELSE IF Head(texts) \notin seen
         THEN DedupFromRawKey(Tail(texts), seen \cup {Head(texts)},
                              Append(unique, Head(texts)))
         ELSE DedupFromRawKey(Tail(texts), seen, unique)

\* the loop of scanner.py lines 83-88 over the flattened texts
RECURSIVE DedupFrom(_, _, _)
DedupFrom(texts, seen, unique) ==
    IF texts = <<>> THEN unique
    ELSE LET normalized == normalize(Head(texts))
         IN IF normalized \notin seen
            THEN DedupFrom(Tail(texts), seen \cup {normalized},
                           Append(unique, Head(texts)))
            ELSE DedupFrom(Tail(texts), seen, unique)

FlatTexts(raw) == Flatten([i \in DOMAIN raw |-> raw[i].suggestions])

FlattenedSuggestions(raw) == FlatTexts(raw)

UniqueSuggestions(raw) == DedupFrom(FlatTexts(raw), {}, <<>>)

\* what lines 80-88 can leave in unique_suggestions
UniqueLists == {UniqueSuggestions(raw) : raw \in RawResults}

new_negatives_any_sentiment(d, current) ==
    LET new_texts == {d.new_suggestions[k].text : k \in DOMAIN d.new_suggestions}
        IsNew(s) == s.text \in new_texts
    IN SelectSeq(current, IsNew)

\* the list comprehension of lines 139-144
new_negatives(d, current) ==
    LET new_texts == {d.new_suggestions[k].text : k \in DOMAIN d.new_suggestions}
        IsNewNegative(s) == s.text \in new_texts /\ s.sentiment = "negative"
    IN SelectSeq(current, IsNewNegative)

\* ------------------------------------------------------- notifiers
\* get_notifiers appends in this order
NotifierKinds == <<"telegram", "slack", "webhook">>

\* the notifiers the configuration can enable
NotifierConfigs == SUBSET Range(NotifierKinds)

get_notifiers(enabled) ==
    LET Enabled(k) == k \in enabled
    IN SelectSeq(NotifierKinds, Enabled)

\* WebhookNotifier has no format_new_negative_alert: the attribute lookup of
\* line 238 raises AttributeError
HasFormat(kind) == kind # "webhook"

\* what a notifier's method does when called: it returns or it raises an
\* exception (none of the senders catches every exception: send lets through
\* all but HTTPStatusError, TimeoutException and ConnectError)
Outcomes == {"ok", "raises"}

\* The try statement of lines 237-252 for one notifier, given what format,
\* send and close do.  An exception of format or of the first send is caught
\* by "except Exception" and logged; an exception of the send inside the
\* AttributeError handler is caught by nothing; close runs in every case and
\* its exception is caught by nothing.
notify_one(kind, f, sent, c) ==
    LET fallback == ~HasFormat(kind)
        send_called == fallback \/ f = "ok"
        logged == ~fallback /\ (f = "raises" \/ sent = "raises")
        escaped == fallback /\ sent = "raises"
    IN [notifier |-> kind,
        delivered |-> send_called /\ sent = "ok",
        logged |-> logged,
        raised |-> escaped \/ c = "raises"]

NoReport == [brand_id |-> None]
NoUpsert == [brand_id |-> None]

\* What the last upsert_suggestion call was given and returned; flip changes
\* with every call, so that two equal calls in a row are two events.
UpsertCall(b, t, r) ==
    [brand_id |-> b, text |-> t, id |-> r.id, existed |-> r.existed,
     flip |-> IF last_upsert = NoUpsert THEN FALSE ELSE ~last_upsert.flip]

StepAfterWriteFirst(p) ==
    CASE p = "dedup" -> "add_snapshot"
      [] p = "add_snapshot" -> "upsert"
      [] p = "upsert" -> "read_prev"
      [] p = "read_prev" -> "diff"
      [] p = "diff" -> "notify"
      [] p = "notify" -> "report"
      [] p = "report" -> "returned"
      [] OTHER -> "idle"

\* the statement order of scan_brand after the await of collect_brand
StepAfter(p) ==
    CASE p = "dedup" -> "read_prev"
      [] p = "read_prev" -> "add_snapshot"
      [] p = "add_snapshot" -> "upsert"
      [] p = "upsert" -> "diff"
      [] p = "diff" -> "notify"
      [] p = "notify" -> "report"
      [] p = "report" -> "returned"
      [] OTHER -> "idle"

alertVars == <<alerts_invoked, notifiers, alert_log>>

batchVars == <<all_pc, listing, reports>>

collectVars == <<collect_pc, max_workers, request_delay, queries,
                 unique_queries, sem_value, tasks, results>>

concVars == <<frames, running, store_log>>

\* the state outside the scan orchestrator
otherVars == <<collectVars, concVars, trends>>

\* the state of the other components, which a step of a scan leaves alone
restVars == <<batchVars, otherVars>>

\* no _send_alerts call has been made
AlertsIdle ==
    /\ alerts_invoked = FALSE
    /\ notifiers = <<>>
    /\ alert_log = <<>>

\* no scan_all call is running
BatchIdle ==
    /\ all_pc = "idle"
    /\ listing = <<>>
    /\ reports = <<>>

\* no collector has been built and no collect_brand call is running
CollectIdle ==
    /\ collect_pc = "idle"
    /\ max_workers = None
    /\ request_delay = None
    /\ queries = <<>>
    /\ unique_queries = <<>>
    /\ sem_value = None
    /\ tasks = <<>>
    /\ results = <<>>

\* no scan_brand tasks have been created on the event loop
ConcIdle ==
    /\ frames = <<>>
    /\ running = None
    /\ store_log = <<>>

\* detect_trends has not been called
NoTrends == [brand_id |-> None]

OtherIdle == CollectIdle /\ ConcIdle /\ trends = NoTrends

RestIdle == BatchIdle /\ OtherIdle

ScanLocalsIdle ==
    /\ brand_id = None
    /\ raw_results = <<>>
    /\ unique_suggestions = <<>>
    /\ previous_suggestions = <<>>
    /\ snapshot_id = None
    /\ current_suggestions = <<>>
    /\ prev_for_diff = <<>>
    /\ curr_for_diff = <<>>
    /\ diff = NoDiff
    /\ report = NoReport
    /\ events = <<>>
    /\ AlertsIdle
    /\ RestIdle

Brand(b) == [name |-> IF b = 1 THEN <<"m">> ELSE <<"n">>, active |-> TRUE]

InitWith(bs) ==
    /\ brands = [b \in bs |-> Brand(b)]
    /\ snapshots = <<>>
    /\ suggestions = <<>>
    /\ clock = 0
    /\ pc = "idle"
    /\ last_upsert = NoUpsert
    /\ ScanLocalsIdle

\* one tracked brand, empty store, no scan running
Init == InitWith({1})

dbVars == <<brands, snapshots, suggestions, clock, last_upsert>>
scanVars == <<brand_id, raw_results, unique_suggestions, previous_suggestions,
              snapshot_id, current_suggestions, prev_for_diff, curr_for_diff,
              diff, report, events, alertVars>>

\* time passes
Tick ==
    /\ clock < MaxClock
    /\ clock' = clock + 1
    /\ UNCHANGED <<brands, snapshots, suggestions, last_upsert, pc, scanVars>>
    /\ UNCHANGED restVars

\* scan_brand, line 78: collect_brand has returned raw
ScanCollect(b, raw) ==
    /\ pc = "idle"
    /\ pc' = "dedup"
    /\ brand_id' = b
    /\ raw_results' = raw
    /\ UNCHANGED <<dbVars, unique_suggestions, previous_suggestions,
                   snapshot_id, current_suggestions, prev_for_diff,
                   curr_for_diff, diff, report, events>>
    /\ UNCHANGED <<alertVars, restVars>>

\* lines 80-91
Dedup ==
    /\ pc = "dedup"
    /\ unique_suggestions' = UniqueSuggestions(raw_results)
    /\ pc' = StepAfter("dedup")
    /\ UNCHANGED <<dbVars, brand_id, raw_results, previous_suggestions,
                   snapshot_id, current_suggestions, prev_for_diff,
                   curr_for_diff, diff, report, events>>
    /\ UNCHANGED <<alertVars, restVars>>

\* lines 78-91 as one step, for the specification of the whole scan: unique
\* is the deduplicated list of some collector result.  The raw results are
\* read again only for the snapshot's raw_data and for total_queries, which
\* are not modelled, so they are not kept.
CollectAndDedup(b, unique) ==
    /\ pc = "idle"
    /\ Len(snapshots) < MaxSnapshots
    /\ brand_id' = b
    /\ unique_suggestions' = unique
    /\ pc' = StepAfter("dedup")
    /\ UNCHANGED <<dbVars, raw_results, previous_suggestions,
                   snapshot_id, current_suggestions, prev_for_diff,
                   curr_for_diff, diff, report, events>>
    /\ UNCHANGED <<alertVars, restVars>>

\* lines 93-97
ReadPrevious ==
    /\ pc = "read_prev"
    /\ IF get_latest_snapshot(brand_id) # None
       THEN previous_suggestions' \in get_suggestions_for_brand(brand_id)
       ELSE previous_suggestions' = <<>>
    /\ events' = Append(events, [op |-> "read_previous", arg |-> None])
    /\ pc' = StepAfter("read_prev")
    /\ UNCHANGED <<dbVars, brand_id, raw_results, unique_suggestions,
                   snapshot_id, current_suggestions, prev_for_diff,
                   curr_for_diff, diff, report>>
    /\ UNCHANGED <<alertVars, restVars>>

\* lines 99-107
AddSnapshotStep ==
    /\ pc = "add_snapshot"
    /\ snapshots' = add_snapshot(snapshots, brand_id, clock)
    /\ snapshot_id' = Len(snapshots) + 1
    /\ current_suggestions' = <<>>
    /\ events' = Append(events, [op |-> "add_snapshot",
                                 arg |-> Len(snapshots) + 1])
    /\ pc' = IF unique_suggestions = <<>>
             THEN StepAfter("upsert") ELSE StepAfter("add_snapshot")
    /\ UNCHANGED <<brands, suggestions, clock, last_upsert, brand_id,
                   raw_results, unique_suggestions, previous_suggestions,
                   prev_for_diff, curr_for_diff, diff, report>>
    /\ UNCHANGED <<alertVars, restVars>>

RankZeroBased(i) == i

\* position=i + 1 for the enumerate index i (lines 114 and 122)
RankOf(i) == i + 1

\* one pass of the loop of lines 108-127
UpsertStep ==
    /\ pc = "upsert"
    /\ Len(current_suggestions) < Len(unique_suggestions)
    /\ LET i == Len(current_suggestions)
           text == unique_suggestions[i + 1]
           sentiment == analyze(text, brands[brand_id].name)
           r == upsert_suggestion(suggestions, snapshot_id, brand_id, text,
                                  RankOf(i), sentiment, clock)
       IN /\ suggestions' = r.rows
          /\ last_upsert' = UpsertCall(brand_id, text, r)
          /\ current_suggestions' =
                Append(current_suggestions,
                       [text |-> text, position |-> RankOf(i),
                        sentiment |-> sentiment])
          /\ events' = Append(events, [op |-> "upsert", arg |-> snapshot_id])
          /\ pc' = IF i + 1 = Len(unique_suggestions)
                   THEN StepAfter("upsert") ELSE "upsert"
    /\ UNCHANGED <<brands, snapshots, clock, brand_id, raw_results,
                   unique_suggestions, previous_suggestions, snapshot_id,
                   prev_for_diff, curr_for_diff, diff, report>>
    /\ UNCHANGED <<alertVars, restVars>>

\* lines 129-136
DiffStep ==
    /\ pc = "diff"
    /\ LET p == [k \in DOMAIN previous_suggestions |->
                    [text |-> previous_suggestions[k].text,
                     position |-> previous_suggestions[k].position]]
           c == [k \in DOMAIN current_suggestions |->
                    [text |-> current_suggestions[k].text,
                     position |-> current_suggestions[k].position]]
       IN /\ prev_for_diff' = p
          /\ curr_for_diff' = c
          /\ diff' = compare_snapshots(p, c)
    /\ events' = Append(events, [op |-> "diff", arg |-> None])
    /\ pc' = StepAfter("diff")
    /\ UNCHANGED <<dbVars, brand_id, raw_results, unique_suggestions,
                   previous_suggestions, snapshot_id, current_suggestions,
                   report>>
    /\ UNCHANGED <<alertVars, restVars>>

\* lines 146-147: the dispatch is awaited when there is a new negative;
\* get_notifiers builds the list from the configuration read at that moment
Notify ==
    /\ pc = "notify"
    /\ IF new_negatives(diff, current_suggestions) = <<>>
       THEN /\ pc' = StepAfter("notify")
            /\ UNCHANGED alertVars
       ELSE /\ alerts_invoked' = TRUE
            /\ alert_log' = <<>>
            /\ \E enabled \in NotifierConfigs :
                  /\ notifiers' = get_notifiers(enabled)
                  /\ pc' = IF notifiers' = <<>>
                           THEN StepAfter("notify") ELSE "alerts"
    /\ UNCHANGED <<dbVars, brand_id, raw_results, unique_suggestions,
                   previous_suggestions, snapshot_id, current_suggestions,
                   prev_for_diff, curr_for_diff, diff, report, events>>
    /\ UNCHANGED restVars

\* one pass of the loop of lines 236-252; an exception that leaves it leaves
\* _send_alerts and scan_brand (line 147 is in no try statement)
AlertStep ==
    /\ pc = "alerts"
    /\ Len(alert_log) < Len(notifiers)
    /\ \E f \in Outcomes, sent \in Outcomes, c \in Outcomes :
          LET r == notify_one(notifiers[Len(alert_log) + 1], f, sent, c)
          IN /\ alert_log' = Append(alert_log, r)
             /\ pc' = IF r.raised THEN "raised"
                      ELSE IF Len(alert_log) + 1 = Len(notifiers)
                           THEN StepAfter("notify") ELSE "alerts"
    /\ UNCHANGED <<dbVars, brand_id, raw_results, unique_suggestions,
                   previous_suggestions, snapshot_id, current_suggestions,
                   prev_for_diff, curr_for_diff, diff, report, events,
                   alerts_invoked, notifiers>>
    /\ UNCHANGED restVars

\* lines 149-160
Return ==
    /\ pc = "report"
    /\ report' = [brand_id |-> brand_id,
                  brand_name |-> brands[brand_id].name,
                  snapshot_id |-> snapshot_id,
                  total_suggestions |-> Len(unique_suggestions),
                  diff |-> diff.summary,
                  new_negatives |->
                      Len(new_negatives(diff, current_suggestions))]
    /\ pc' = StepAfter("report")
    /\ UNCHANGED <<dbVars, brand_id, raw_results, unique_suggestions,
                   previous_suggestions, snapshot_id, current_suggestions,
                   prev_for_diff, curr_for_diff, diff, events>>
    /\ UNCHANGED <<alertVars, restVars>>

\* the caller has the report; the frame of scan_brand is gone
Finish ==
    /\ pc = "returned"
    /\ pc' = "idle"
    /\ brand_id' = None
    /\ raw_results' = <<>>
    /\ unique_suggestions' = <<>>
    /\ previous_suggestions' = <<>>
    /\ snapshot_id' = None
    /\ current_suggestions' = <<>>
    /\ prev_for_diff' = <<>>
    /\ curr_for_diff' = <<>>
    /\ diff' = NoDiff
    /\ report' = NoReport
    /\ events' = <<>>
    /\ UNCHANGED dbVars
    /\ alerts_invoked' = FALSE
    /\ notifiers' = <<>>
    /\ alert_log' = <<>>
    /\ UNCHANGED restVars

CollectFailsAfterSnapshot(b) ==
    /\ pc = "idle"
    /\ Len(snapshots) < MaxSnapshots
    /\ brand_id' = b
    /\ pc' = "raised"
    /\ snapshots' = add_snapshot(snapshots, b, clock)
    /\ UNCHANGED <<brands, suggestions, clock, last_upsert, raw_results,
                   unique_suggestions, previous_suggestions, snapshot_id,
                   current_suggestions, prev_for_diff, curr_for_diff, diff,
                   report, events>>
    /\ UNCHANGED <<alertVars, restVars>>

\* line 78: collect_brand raises (a task of it raised an exception that
\* _fetch does not catch), and scan_brand with it
CollectFails(b) ==
    /\ pc = "idle"
    /\ Len(snapshots) < MaxSnapshots
    /\ brand_id' = b
    /\ pc' = "raised"
    /\ UNCHANGED <<dbVars, raw_results, unique_suggestions,
                   previous_suggestions, snapshot_id, current_suggestions,
                   prev_for_diff, curr_for_diff, diff, report, events>>
    /\ UNCHANGED <<alertVars, restVars>>

\* the caller has the exception; the frame of scan_brand is gone
Unwind ==
    /\ pc = "raised"
    /\ pc' = "idle"
    /\ brand_id' = None
    /\ raw_results' = <<>>
    /\ unique_suggestions' = <<>>
    /\ previous_suggestions' = <<>>
    /\ snapshot_id' = None
    /\ current_suggestions' = <<>>
    /\ prev_for_diff' = <<>>
    /\ curr_for_diff' = <<>>
    /\ diff' = NoDiff
    /\ report' = NoReport
    /\ events' = <<>>
    /\ alerts_invoked' = FALSE
    /\ notifiers' = <<>>
    /\ alert_log' = <<>>
    /\ UNCHANGED <<dbVars, restVars>>

Next ==
    \/ /\ pc = "idle"
       /\ \E b \in DOMAIN brands, unique \in UniqueLists :
             CollectAndDedup(b, unique)
    \/ \E b \in DOMAIN brands : CollectFails(b)
    \/ ReadPrevious
    \/ AddSnapshotStep
    \/ UpsertStep
    \/ DiffStep
    \/ Notify
    \/ AlertStep
    \/ Return
    \/ Finish
    \/ Unwind

Spec == Init /\ [][Next]_vars

\* ------------------------------------------------------- scan_all
BatchBrands == {1, 2, 3}

BatchBrand(b) ==
    CASE b = 1 -> <<"m">>
      [] b = 2 -> <<"n">>
      [] OTHER -> <<"o">>

\* three tracked brands, each active or deactivated; empty store
InitAll ==
    /\ brands \in {[b \in BatchBrands |->
                       [name |-> BatchBrand(b), active |-> b \in act]] :
                    act \in SUBSET BatchBrands}
    /\ snapshots = <<>>
    /\ suggestions = <<>>
    /\ clock = 0
    /\ pc = "idle"
    /\ last_upsert = NoUpsert
    /\ ScanLocalsIdle

\* what the collector returns to the scans of a batch, deduplicated: nothing,
\* or one text that every brand gets
BatchUniqueLists == {u \in UniqueLists : u \in {<<>>, << <<"sahte">> >>}}

list_brands_all(rows) ==
    LET ids == DOMAIN rows
        n == Cardinality(ids)
    IN {f \in [1..n -> ids] : \A x, y \in 1..n : x # y => f[x] # f[y]}

\* list_brands(active_only=True): SELECT * FROM brands WHERE active = 1, with
\* no ORDER BY, so every order of the active rows is a possible listing
list_brands(rows) ==
    LET ids == {b \in DOMAIN rows : rows[b].active}
        n == Cardinality(ids)
    IN {f \in [1..n -> ids] : \A x, y \in 1..n : x # y => f[x] # f[y]}

\* lines 169-170
ScanAllStart ==
    /\ all_pc = "idle"
    /\ pc = "idle"
    /\ listing' \in list_brands(brands)
    /\ reports' = <<>>
    /\ all_pc' = "loop"
    /\ UNCHANGED <<dbVars, pc, scanVars>>
    /\ UNCHANGED otherVars

\* line 177: scan_brand is called for the next brand of the listing, and
\* its collect_brand returns
ScanAllCall(unique) ==
    /\ all_pc = "loop"
    /\ Len(reports) < Len(listing)
    /\ CollectAndDedup(listing[Len(reports) + 1], unique)

\* line 177: scan_brand is called and its collect_brand raises
ScanAllCallFails ==
    /\ all_pc = "loop"
    /\ Len(reports) < Len(listing)
    /\ CollectFails(listing[Len(reports) + 1])

\* the frame of scan_brand is gone
FrameGone ==
    /\ pc' = "idle"
    /\ brand_id' = None
    /\ raw_results' = <<>>
    /\ unique_suggestions' = <<>>
    /\ previous_suggestions' = <<>>
    /\ snapshot_id' = None
    /\ current_suggestions' = <<>>
    /\ prev_for_diff' = <<>>
    /\ curr_for_diff' = <<>>
    /\ diff' = NoDiff
    /\ report' = NoReport
    /\ events' = <<>>
    /\ alerts_invoked' = FALSE
    /\ notifiers' = <<>>
    /\ alert_log' = <<>>

\* lines 177-178: scan_brand returned its report
AppendReport ==
    /\ all_pc = "loop"
    /\ pc = "returned"
    /\ reports' = Append(reports, report)
    /\ FrameGone
    /\ UNCHANGED <<dbVars, all_pc, listing>>
    /\ UNCHANGED otherVars

\* lines 179-187: scan_brand raised
AppendError ==
    /\ all_pc = "loop"
    /\ pc = "raised"
    /\ LET brand == listing[Len(reports) + 1]
       IN reports' = Append(reports, [brand_id |-> brand,
                                      brand_name |-> brands[brand].name,
                                      error |-> TRUE])
    /\ FrameGone
    /\ UNCHANGED <<dbVars, all_pc, listing>>
    /\ UNCHANGED otherVars

\* line 189
ScanAllReturn ==
    /\ all_pc = "loop"
    /\ pc = "idle"
    /\ Len(reports) = Len(listing)
    /\ all_pc' = "returned"
    /\ UNCHANGED <<dbVars, pc, scanVars, listing, reports>>
    /\ UNCHANGED otherVars

\* the caller has the reports
ScanAllDone ==
    /\ all_pc = "returned"
    /\ all_pc' = "idle"
    /\ listing' = <<>>
    /\ reports' = <<>>
    /\ UNCHANGED <<dbVars, pc, scanVars>>
    /\ UNCHANGED otherVars

NextAll ==
    \/ ScanAllStart
    \/ /\ pc = "idle"
       /\ \E unique \in BatchUniqueLists : ScanAllCall(unique)
    \/ ScanAllCallFails
    \/ ReadPrevious
    \/ AddSnapshotStep
    \/ UpsertStep
    \/ DiffStep
    \/ Notify
    \/ AlertStep
    \/ Return
    \/ AppendReport
    \/ AppendError
    \/ ScanAllReturn
    \/ ScanAllDone

SpecAll == InitAll /\ [][NextAll]_vars

\* ------------------------------------- AutocompleteCollector.collect_brand
\* The query variants of a brand's keywords, numbered in the order of their
\* first occurrence; two keywords can generate the same variant.
QueryLists ==
    {l \in SeqsUpTo(1..MaxVariants, MaxVariants) :
        \A i \in DOMAIN l :
            l[i] = 1 \/ \E j \in 1..(i - 1) : l[j] >= l[i] - 1}

NoDedupQueries(qs, seen, unique) == qs

\* the loop of lines 103-108
RECURSIVE DedupQueries(_, _, _)
DedupQueries(qs, seen, unique) ==
    IF qs = <<>> THEN unique
    ELSE IF Head(qs) \notin seen
         THEN DedupQueries(Tail(qs), seen \cup {Head(qs)},
                           Append(unique, Head(qs)))
         ELSE DedupQueries(Tail(qs), seen, unique)

\* What self.collect does for one query: it returns a list of suggestions
\* (possibly empty), or raises HTTPStatusError, TimeoutException,
\* ConnectError, or an exception _fetch has no handler for (a response that
\* is not JSON, another transport error).
FetchOutcomes ==
    {"ok", "ok_empty", "HTTPStatusError", "TimeoutException", "ConnectError",
     "other"}

\* the result dict built by _fetch, lines 121-144
fetch_result(query, outcome) ==
    CASE outcome = "ok" ->
            [query |-> query, suggestions |-> << <<"I">> >>]
      [] outcome = "ok_empty" ->
            [query |-> query, suggestions |-> <<>>]
      [] outcome = "HTTPStatusError" ->
            [query |-> query, suggestions |-> <<>>, error |-> "HTTP"]
      [] OTHER ->
            [query |-> query, suggestions |-> <<>>, error |-> outcome]

CanAcquireAlways(value) == TRUE

\* asyncio.Semaphore.acquire returns without waiting when a permit is free
CanAcquire(value) == value > 0

\* the tasks inside "async with sem": request sent or post-request delay
InFlight == {i \in DOMAIN tasks : tasks[i].state \in {"request", "sleep"}}

InitCollect ==
    /\ brands = [b \in {1} |-> Brand(b)]
    /\ snapshots = <<>>
    /\ suggestions = <<>>
    /\ clock = 0
    /\ pc = "idle"
    /\ last_upsert = NoUpsert
    /\ brand_id = None
    /\ raw_results = <<>>
    /\ unique_suggestions = <<>>
    /\ previous_suggestions = <<>>
    /\ snapshot_id = None
    /\ current_suggestions = <<>>
    /\ prev_for_diff = <<>>
    /\ curr_for_diff = <<>>
    /\ diff = NoDiff
    /\ report = NoReport
    /\ events = <<>>
    /\ AlertsIdle
    /\ BatchIdle
    /\ collect_pc = "called"
    /\ max_workers \in 1..MaxWorkers
    /\ request_delay \in {0, 1}
    /\ queries \in QueryLists
    /\ unique_queries = <<>>
    /\ sem_value = None
    /\ tasks = <<>>
    /\ results = <<>>
    /\ ConcIdle
    /\ trends = NoTrends

nonCollectVars == <<dbVars, pc, scanVars, batchVars, concVars, trends>>

\* lines 95-114 and 156: the queries are deduplicated, the semaphore is
\* built and one _fetch task per unique query is created
CollectBrandStart ==
    /\ collect_pc = "called"
    /\ unique_queries' = DedupQueries(queries, {}, <<>>)
    /\ tasks' = [i \in DOMAIN unique_queries' |->
                    [state |-> "pending", outcome |-> "none"]]
    /\ sem_value' = max_workers
    /\ results' = <<>>
    /\ collect_pc' = "gather"
    /\ UNCHANGED <<nonCollectVars, max_workers, request_delay, queries>>

\* line 118: a task enters "async with sem" and sends its request
Acquire(i) ==
    /\ collect_pc \in {"gather", "raised"}
    /\ tasks[i].state = "pending"
    /\ CanAcquire(sem_value)
    /\ sem_value' = sem_value - 1
    /\ tasks' = [tasks EXCEPT ![i].state = "request"]
    /\ UNCHANGED <<nonCollectVars, collect_pc, max_workers, request_delay,
                   queries, unique_queries, results>>

\* as_completed hands a finished task to the loop of lines 157-160: its
\* result is appended, or its exception leaves collect_brand
Completed(i, outcome) ==
    IF collect_pc # "gather"
    THEN UNCHANGED <<collect_pc, results>>
    ELSE IF outcome = "other"
         THEN collect_pc' = "raised" /\ UNCHANGED results
         ELSE /\ results' = Append(results,
                                   fetch_result(unique_queries[i], outcome))
              /\ UNCHANGED collect_pc

\* lines 120-154: the request of a task ends.  An exception without a
\* handler leaves "async with sem" and ends the task; otherwise the result
\* is built and the task sleeps request_delay, if positive, before it
\* leaves "async with sem" and ends.
Respond(i, outcome) ==
    /\ collect_pc \in {"gather", "raised"}
    /\ tasks[i].state = "request"
    /\ IF outcome # "other" /\ request_delay > 0
       THEN /\ tasks' = [tasks EXCEPT ![i] = [state |-> "sleep",
                                               outcome |-> outcome]]
            /\ UNCHANGED <<sem_value, collect_pc, results>>
       ELSE /\ tasks' = [tasks EXCEPT ![i] = [state |-> "done",
                                               outcome |-> outcome]]
            /\ sem_value' = sem_value + 1
            /\ Completed(i, outcome)
    /\ UNCHANGED <<nonCollectVars, max_workers, request_delay, queries,
                   unique_queries>>

\* lines 151-154: the delay of a task is over
Wake(i) ==
    /\ collect_pc \in {"gather", "raised"}
    /\ tasks[i].state = "sleep"
    /\ tasks' = [tasks EXCEPT ![i].state = "done"]
    /\ sem_value' = sem_value + 1
    /\ Completed(i, tasks[i].outcome)
    /\ UNCHANGED <<nonCollectVars, max_workers, request_delay, queries,
                   unique_queries>>

\* line 162
CollectBrandReturn ==
    /\ collect_pc = "gather"
    /\ \A i \in DOMAIN tasks : tasks[i].state = "done"
    /\ collect_pc' = "returned"
    /\ UNCHANGED <<nonCollectVars, max_workers, request_delay, queries,
                   unique_queries, sem_value, tasks, results>>

NextCollect ==
    \/ CollectBrandStart
    \/ \E i \in DOMAIN tasks : Acquire(i)
    \/ \E i \in DOMAIN tasks, outcome \in FetchOutcomes : Respond(i, outcome)
    \/ \E i \in DOMAIN tasks : Wake(i)
    \/ CollectBrandReturn

SpecCollect == InitCollect /\ [][NextCollect]_vars

\* ------------------------- scan_brand calls as tasks of one event loop
\* Two scan_brand calls for the same brand, created as tasks (gather) and
\* both awaiting collect_brand.
ScanTasks == {1, 2}

ConcBrand == 1

SuspendsInsideWrites(p) == p \in {"collect", "upsert", "notify"}

\* The statements of scan_brand that await: collect_brand (line 78) and
\* _send_alerts (line 147).  The store calls of lines 93-127 and the diff
\* of line 136 are plain calls.
Suspends(p) == p \in {"collect", "notify"}

\* the event loop runs task t next: t has not given up the loop, or the
\* loop is free and t is waiting at an await
Scheduled(t) ==
    \/ running = t
    \/ running = None /\ Suspends(frames[t].pc)

\* a task keeps the loop until it reaches an await or ends
LoopAfter(t, p) == IF Suspends(p) \/ p = "done" THEN None ELSE t

InitConc ==
    /\ brands = [b \in {1} |-> Brand(b)]
    /\ snapshots = <<>>
    /\ suggestions = <<>>
    /\ clock = 0
    /\ pc = "idle"
    /\ last_upsert = NoUpsert
    /\ brand_id = None
    /\ raw_results = <<>>
    /\ unique_suggestions = <<>>
    /\ previous_suggestions = <<>>
    /\ snapshot_id = None
    /\ current_suggestions = <<>>
    /\ prev_for_diff = <<>>
    /\ curr_for_diff = <<>>
    /\ diff = NoDiff
    /\ report = NoReport
    /\ events = <<>>
    /\ AlertsIdle
    /\ BatchIdle
    /\ CollectIdle
    /\ frames = [t \in ScanTasks |->
                   [pc |-> "collect", unique_suggestions |-> <<>>,
                    previous_suggestions |-> <<>>, snapshot_id |-> None,
                    current_suggestions |-> <<>>, diff |-> NoDiff.summary]]
    /\ running = None
    /\ store_log = <<>>
    /\ trends = NoTrends

nonConcVars == <<brands, clock, pc, scanVars, batchVars, collectVars, trends>>

\* lines 78-91 in task t: collect_brand has returned, the texts are
\* deduplicated and scored
ConcCollected(t, unique) ==
    /\ frames[t].pc = "collect"
    /\ Scheduled(t)
    /\ frames' = [frames EXCEPT ![t].unique_suggestions = unique,
                                ![t].pc = StepAfter("dedup")]
    /\ running' = LoopAfter(t, StepAfter("dedup"))
    /\ UNCHANGED <<nonConcVars, snapshots, suggestions, last_upsert,
                   store_log>>

\* lines 93-97 in task t
ConcReadPrevious(t) ==
    /\ frames[t].pc = "read_prev"
    /\ Scheduled(t)
    /\ \E previous \in IF get_latest_snapshot(ConcBrand) # None
                        THEN get_suggestions_for_brand(ConcBrand)
                        ELSE {<<>>} :
          frames' = [frames EXCEPT ![t].previous_suggestions = previous,
                                   ![t].pc = StepAfter("read_prev")]
    /\ store_log' = Append(store_log, [task |-> t, op |-> "read_previous"])
    /\ running' = LoopAfter(t, StepAfter("read_prev"))
    /\ UNCHANGED <<nonConcVars, snapshots, suggestions, last_upsert>>

\* lines 99-107 in task t
ConcAddSnapshot(t) ==
    /\ frames[t].pc = "add_snapshot"
    /\ Scheduled(t)
    /\ snapshots' = add_snapshot(snapshots, ConcBrand, clock)
    /\ LET next == IF frames[t].unique_suggestions = <<>>
                   THEN StepAfter("upsert") ELSE StepAfter("add_snapshot")
       IN /\ frames' = [frames EXCEPT ![t].snapshot_id = Len(snapshots) + 1,
                                      ![t].pc = next]
          /\ running' = LoopAfter(t, next)
    /\ store_log' = Append(store_log, [task |-> t, op |-> "add_snapshot"])
    /\ UNCHANGED <<nonConcVars, suggestions, last_upsert>>

\* one pass of the loop of lines 108-127 in task t
ConcUpsert(t) ==
    /\ frames[t].pc = "upsert"
    /\ Scheduled(t)
    /\ LET f == frames[t]
           i == Len(f.current_suggestions)
           text == f.unique_suggestions[i + 1]
           sentiment == analyze(text, brands[ConcBrand].name)
           r == upsert_suggestion(suggestions, f.snapshot_id, ConcBrand,
                                  text, RankOf(i), sentiment, clock)
           next == IF i + 1 = Len(f.unique_suggestions)
                   THEN StepAfter("upsert") ELSE "upsert"
       IN /\ suggestions' = r.rows
          /\ last_upsert' = UpsertCall(ConcBrand, text, r)
          /\ frames' = [frames EXCEPT
                          ![t].current_suggestions =
                              Append(@, [text |-> text,
                                         position |-> RankOf(i),
                                         sentiment |-> sentiment]),
                          ![t].pc = next]
          /\ running' = LoopAfter(t, next)
    /\ store_log' = Append(store_log, [task |-> t, op |-> "upsert"])
    /\ UNCHANGED <<nonConcVars, snapshots>>

\* lines 129-136 in task t
ConcDiff(t) ==
    /\ frames[t].pc = "diff"
    /\ Scheduled(t)
    /\ LET f == frames[t]
           p == [k \in DOMAIN f.previous_suggestions |->
                    [text |-> f.previous_suggestions[k].text,
                     position |-> f.previous_suggestions[k].position]]
           c == [k \in DOMAIN f.current_suggestions |->
                    [text |-> f.current_suggestions[k].text,
                     position |-> f.current_suggestions[k].position]]
       IN frames' = [frames EXCEPT
                       ![t].diff = compare_snapshots(p, c).summary,
                       ![t].pc = StepAfter("diff")]
    /\ store_log' = Append(store_log, [task |-> t, op |-> "diff"])
    /\ running' = LoopAfter(t, StepAfter("diff"))
    /\ UNCHANGED <<nonConcVars, snapshots, suggestions, last_upsert>>

\* lines 138-160 in task t: the alerts are awaited if there are new
\* negatives, and the report is returned
ConcFinish(t) ==
    /\ frames[t].pc = "notify"
    /\ Scheduled(t)
    /\ frames' = [frames EXCEPT ![t].pc = "done"]
    /\ running' = LoopAfter(t, "done")
    /\ UNCHANGED <<nonConcVars, snapshots, suggestions, last_upsert,
                   store_log>>

NextConc ==
    \/ \E t \in ScanTasks :
          /\ frames[t].pc = "collect"
          /\ \E unique \in UniqueLists : ConcCollected(t, unique)
    \/ \E t \in ScanTasks : ConcReadPrevious(t)
    \/ \E t \in ScanTasks : ConcAddSnapshot(t)
    \/ \E t \in ScanTasks : ConcUpsert(t)
    \/ \E t \in ScanTasks : ConcDiff(t)
    \/ \E t \in ScanTasks : ConcFinish(t)

SpecConc == InitConc /\ [][NextConc]_vars

\* ----------------------------------------- the diff engine on its own
DiffTexts == {<<"I">>, <<"sahte">>}
\* positions are compared for None and for equality only
DiffPositions == {None, 1, 2}
DiffRecords == [text : DiffTexts, position : DiffPositions]
DiffLists == SeqsUpTo(DiffRecords, MaxDiffLen)

InitDiff ==
    /\ brands = [b \in {1} |-> Brand(b)]
    /\ snapshots = <<>>
    /\ suggestions = <<>>
    /\ clock = 0
    /\ pc = "compare"
    /\ last_upsert = NoUpsert
    /\ brand_id = None
    /\ raw_results = <<>>
    /\ unique_suggestions = <<>>
    /\ previous_suggestions = <<>>
    /\ snapshot_id = None
    /\ current_suggestions = <<>>
    /\ prev_for_diff \in DiffLists
    /\ curr_for_diff \in DiffLists
    /\ diff = NoDiff
    /\ report = NoReport
    /\ events = <<>>
    /\ AlertsIdle
    /\ RestIdle

\* DiffAnalyzer.compare_snapshots(previous, current) called by any caller
CompareSnapshots ==
    /\ pc = "compare"
    /\ diff' = compare_snapshots(prev_for_diff, curr_for_diff)
    /\ pc' = "compared"
    /\ UNCHANGED <<dbVars, brand_id, raw_results, unique_suggestions,
                   previous_suggestions, snapshot_id, current_suggestions,
                   prev_for_diff, curr_for_diff, report, events>>
    /\ UNCHANGED <<alertVars, restVars>>

SpecDiff == InitDiff /\ [][CompareSnapshots]_vars

\* ------------------------------- the deduplication of scan_brand on its own
NextDedup ==
    \/ /\ pc = "idle"
       /\ \E b \in DOMAIN brands, raw \in DedupRawResults : ScanCollect(b, raw)
    \/ Dedup

SpecDedup == Init /\ [][NextDedup]_vars

\* ------------------------------------------ the store called directly
DbTexts == {<<"sahte">>}

Payloads == {[position |-> None, sentiment |-> "neutral"],
             [position |-> 1, sentiment |-> "negative"]}

InitDb == InitWith({1, 2})

\* Database.add_snapshot(brand_id, ...); the foreign key needs a brand row
AddSnapshot(b) ==
    /\ pc = "idle"
    /\ Len(snapshots) < MaxDbSnapshots
    /\ snapshots' = add_snapshot(snapshots, b, clock)
    /\ UNCHANGED <<brands, suggestions, clock, last_upsert, pc, scanVars>>
    /\ UNCHANGED restVars

\* Database.upsert_suggestion(snapshot_id, brand_id, text, position,
\* sentiment); the foreign keys need the snapshot row and the brand row
UpsertSuggestion(sid, b, t, p) ==
    /\ pc = "idle"
    /\ \A i \in ExistingIds(suggestions, b, t) :
          suggestions[i].times_seen < MaxSeen
    /\ LET r == upsert_suggestion(suggestions, sid, b, t, p.position,
                                  p.sentiment, clock)
       IN /\ suggestions' = r.rows
          /\ last_upsert' = UpsertCall(b, t, r)
    /\ UNCHANGED <<brands, snapshots, clock, pc, scanVars>>
    /\ UNCHANGED restVars

SeenMoreThanThree(s) == s.times_seen > 3

\* the test of line 113 of detect_trends; times_seen is never NULL in a
\* stored row
SeenOften(s) == s.times_seen >= 3

\* since_days and not_seen_days of lines 106 and 109
RecentDays == 7

\* ratios are counted in units of 0.0001
RatioScale == 10000

\* round(negative / total, 4) (line 119), for the totals of the model,
\* where no quotient lies halfway between two multiples of 0.0001
RoundedRatio(negative, total) ==
    (2 * RatioScale * negative + total) \div (2 * total)

IsNegative(s) == s.sentiment = "negative"

\* the values of the days argument
TrendDays == {1, 8}

\* DiffAnalyzer.detect_trends(brand_id, db, days): the arguments and what
\* the call returns.  The call writes nothing.
DetectTrends(b, days) ==
    /\ pc = "idle"
    /\ \E rising \in get_new_suggestions(b, RecentDays),
          disappeared \in get_disappeared_suggestions(b, RecentDays),
          all_suggestions \in get_suggestions_for_brand_with(b, "negative") :
          LET daily == get_daily_sentiment_counts(b, days)
          IN trends' =
               [brand_id |-> b,
                days |-> days,
                rising_negative |-> SelectSeq(rising, IsNegative),
                declining_negative |-> SelectSeq(disappeared, IsNegative),
                persistent_negative |->
                   SelectSeq(all_suggestions, SeenOften),
                negative_ratio_trend |->
                   [k \in DOMAIN daily |->
                      [date |-> daily[k].date,
                       ratio |-> IF daily[k].total > 0
                                 THEN RoundedRatio(daily[k].negative,
                                                   daily[k].total)
                                 ELSE 0]]]
    /\ UNCHANGED <<dbVars, pc, scanVars, batchVars, collectVars, concVars>>

NextDb ==
    \/ \E b \in DOMAIN brands : AddSnapshot(b)
    \/ \E sid \in DOMAIN snapshots, b \in DOMAIN brands, t \in DbTexts,
          p \in Payloads : UpsertSuggestion(sid, b, t, p)
    \/ Tick

SpecDb == InitDb /\ [][NextDb]_vars

\* --------------------------------- detect_trends over a store with history
TrendTexts == {<<"sahte">>, <<"I">>}

\* detect_trends only reads: the writes of a behaviour come first and the
\* calls of detect_trends after them, on every store the writes can build
NextTrends ==
    \/ trends = NoTrends /\ \E b \in DOMAIN brands : AddSnapshot(b)
    \/ /\ trends = NoTrends
       /\ \E sid \in DOMAIN snapshots, b \in DOMAIN brands,
             t \in TrendTexts, p \in Payloads :
             UpsertSuggestion(sid, b, t, p)
    \/ trends = NoTrends /\ Tick
    \/ \E b \in DOMAIN brands : DetectTrends(b, RecentDays)

SpecTrends == Init /\ [][NextTrends]_vars

\* ------------------------- detect_trends between the scans of a brand
NextScanTrends ==
    \/ Next
    \/ \E b \in DOMAIN brands, days \in TrendDays : DetectTrends(b, days)

SpecScanTrends == Init /\ [][NextScanTrends]_vars

\* ------------------- detect_trends over a history longer than a week
\* one negative text, one neutral and one positive
WindowTexts == {<<"sahte">>, <<"I">>, <<"harika">>}

\* the instants at which the store was written and is read: two on the
\* first day, and the two a week after them
Instants == {0, 1, RecentDays * TicksPerDay, RecentDays * TicksPerDay + 1}

\* the row of text t after it was inserted at one instant and, if last_seen
\* is later, upserted again at another, as scan_brand calls
\* upsert_suggestion
WindowRows(t) ==
    {[snapshot_id |-> 1, brand_id |-> 1, text |-> t, position |-> 1,
      sentiment |-> analyze(t, Brand(1).name),
      first_seen |-> w[1], last_seen |-> w[2],
      times_seen |-> IF w[1] = w[2] THEN 1 ELSE 2] :
       w \in {x \in Instants \X Instants : x[1] <= x[2]}}

\* the suggestions tables with at most one row per text, the rows in the
\* order of their insertion
WindowStores ==
    UNION {UNION {{[k \in 1..Cardinality(S) |-> r[q[k]]] :
                     q \in {o \in [1..Cardinality(S) -> S] :
                              /\ \A x, y \in 1..Cardinality(S) :
                                    x # y => o[x] # o[y]
                              /\ \A x, y \in 1..Cardinality(S) :
                                    x < y => r[o[x]].first_seen
                                               <= r[o[y]].first_seen}} :
                    r \in {c \in [S -> UNION {WindowRows(t) : t \in S}] :
                             \A t \in S : c[t].text = t}} :
             S \in SUBSET WindowTexts}

\* a store of one brand with a history of upserts, read at an instant not
\* before its last write
InitWindow ==
    /\ brands = [b \in {1} |-> Brand(b)]
    /\ snapshots = <<[brand_id |-> 1, taken_at |-> 0]>>
    /\ suggestions \in WindowStores
    /\ clock \in {now \in Instants :
                    \A i \in DOMAIN suggestions :
                       suggestions[i].last_seen <= now}
    /\ pc = "idle"
    /\ last_upsert = NoUpsert
    /\ ScanLocalsIdle

\* the values of the days argument here: a day, the week of the recent
\* window, and more than a week
WindowDays == {1, RecentDays, RecentDays + 1}

NextWindow == \E days \in WindowDays : DetectTrends(1, days)

SpecWindow == InitWindow /\ [][NextWindow]_vars

\* --------------------- detect_trends for one of two brands of a store
\* the brand that is given suggestions; the other brand never has one
RowBrand == 2

\* the writes come first here too
NextBrandTrends ==
    \/ trends = NoTrends /\ \E b \in DOMAIN brands : AddSnapshot(b)
    \/ /\ trends = NoTrends
       /\ \E sid \in DOMAIN snapshots, t \in DbTexts, p \in Payloads :
             UpsertSuggestion(sid, RowBrand, t, p)
    \/ trends = NoTrends /\ Tick
    \/ \E b \in DOMAIN brands, days \in TrendDays : DetectTrends(b, days)

SpecBrandTrends == InitDb /\ [][NextBrandTrends]_vars

\* ===================================================== claims: diff engine
TextsOf(list) == {list[i].text : i \in DOMAIN list}

Occurrences(list, t) == Cardinality({i \in DOMAIN list : list[i].text = t})

ExactlyOne(a, b, c) == (a /\ ~b /\ ~c) \/ (~a /\ b /\ ~c) \/ (~a /\ ~b /\ c)

\* C1: for every pair of lists, repeated keys included, position_changes and
\* unchanged together have one entry per distinct common key, every key of
\* current is in exactly one of new / position_changes / unchanged, and
\* every key of previous in exactly one of disappeared / position_changes /
\* unchanged.
C1_PartitionCompleteness ==
    pc = "compared" =>
        LET P == Keys(prev_for_diff)
            C == Keys(curr_for_diff)
            N == TextsOf(diff.new_suggestions)
            D == TextsOf(diff.disappeared)
            M == TextsOf(diff.position_changes)
            U == TextsOf(diff.unchanged)
        IN /\ Len(diff.position_changes) + Len(diff.unchanged)
                = Cardinality(P \cap C)
           /\ \A t \in C : ExactlyOne(t \in N, t \in M, t \in U)
           /\ \A t \in P : ExactlyOne(t \in D, t \in M, t \in U)

\* C2: a key repeated inside previous or inside current is reported once in
\* the output, classified and ranked by the last occurrence on each side.
C2_DuplicatesCollapseToLast ==
    pc = "compared" =>
        LET pm == TextMap(prev_for_diff)
            cm == TextMap(curr_for_diff)
        IN \A t \in DOMAIN pm \cup DOMAIN cm :
              /\ Occurrences(diff.new_suggestions, t)
                   + Occurrences(diff.disappeared, t)
                   + Occurrences(diff.position_changes, t)
                   + Occurrences(diff.unchanged, t) = 1
              /\ t \in DOMAIN pm \cap DOMAIN cm =>
                    IF /\ pm[t].position # None
                       /\ cm[t].position # None
                       /\ pm[t].position # cm[t].position
                    THEN [text |-> t, old_position |-> pm[t].position,
                          new_position |-> cm[t].position]
                            \in Range(diff.position_changes)
                    ELSE cm[t] \in Range(diff.unchanged)

\* C3: a record of current whose key is in both lists is in position_changes
\* exactly when the previous side's position (that of the key's last
\* record in previous) and its own are both non-null and differ, with
\* old_position and new_position set to these two; otherwise the record is
\* in unchanged.
C3_MovedIffBothRanksDiffer ==
    pc = "compared" =>
        LET pm == TextMap(prev_for_diff)
            common == Keys(prev_for_diff) \cap Keys(curr_for_diff)
            Differ(s) == /\ pm[s.text].position # None
                         /\ s.position # None
                         /\ pm[s.text].position # s.position
            Entry(s) == [text |-> s.text,
                         old_position |-> pm[s.text].position,
                         new_position |-> s.position]
            commonIdx == {i \in DOMAIN curr_for_diff :
                            curr_for_diff[i].text \in common}
        IN /\ \A i \in commonIdx :
                LET s == curr_for_diff[i]
                IN IF Differ(s)
                   THEN /\ Entry(s) \in Range(diff.position_changes)
                        /\ s \notin Range(diff.unchanged)
                   ELSE /\ s \in Range(diff.unchanged)
                        /\ Entry(s) \notin Range(diff.position_changes)
           /\ \A e \in Range(diff.position_changes) :
                /\ e.text \in common
                /\ e.old_position # None
                /\ e.new_position # None
                /\ e.old_position # e.new_position
                /\ e.old_position = pm[e.text].position
                /\ [text |-> e.text, position |-> e.new_position]
                      \in Range(curr_for_diff)
           /\ \A u \in Range(diff.unchanged) :
                u.text \in common /\ u \in Range(curr_for_diff) /\ ~Differ(u)
           /\ Len(diff.position_changes) + Len(diff.unchanged)
                = Cardinality(commonIdx)

\* a comparison that reports a move and keeps a record with a null rank
C3_Witness ==
    /\ pc = "compared"
    /\ Len(diff.position_changes) >= 1
    /\ \E u \in Range(diff.unchanged) :
          /\ u.position = None
          /\ TextMap(prev_for_diff)[u.text].position # None

\* C4: comparing a list with a copy of itself gives no new, no disappeared
\* and no moved record, and as many unchanged records as the list is long.
C4_SelfCompareAllUnchanged ==
    (pc = "compared" /\ curr_for_diff = prev_for_diff) =>
        /\ diff.summary.new_count = 0
        /\ diff.summary.disappeared_count = 0
        /\ diff.summary.position_change_count = 0
        /\ diff.summary.unchanged_count = Len(prev_for_diff)
        /\ diff.new_suggestions = <<>>
        /\ diff.disappeared = <<>>
        /\ diff.position_changes = <<>>

\* ========================================================== claims: store
SamePair(r, b, t) == r.brand_id = b /\ r.text = t

\* C5: on one (brand, text) the first upsert creates the row with times_seen
\* 1, every later upsert adds exactly 1 to times_seen, first_seen keeps the
\* time of the first call, last_seen becomes the time of the latest call and
\* does not go back, and no step lowers a times_seen or removes a row.
C5_UpsertCounts ==
    [][/\ \A i \in DOMAIN suggestions :
             /\ i \in DOMAIN suggestions'
             /\ suggestions'[i].times_seen >= suggestions[i].times_seen
       /\ last_upsert' # last_upsert =>
             LET b == last_upsert'.brand_id
                 t == last_upsert'.text
                 old == ExistingIds(suggestions, b, t)
                 new == ExistingIds(suggestions', b, t)
             IN IF old = {}
                THEN /\ new # {}
                     /\ \A i \in new :
                          /\ suggestions'[i].times_seen = 1
                          /\ suggestions'[i].first_seen = clock
                          /\ suggestions'[i].last_seen = clock
                ELSE /\ new = old
                     /\ \A i \in old :
                          /\ suggestions'[i].times_seen
                                = suggestions[i].times_seen + 1
                          /\ suggestions'[i].first_seen
                                = suggestions[i].first_seen
                          /\ suggestions'[i].last_seen = clock
                          /\ suggestions'[i].last_seen
                                >= suggestions[i].last_seen]_vars

\* a row upserted three times, the last time after the clock moved
C5_Witness ==
    \E i \in DOMAIN suggestions :
        /\ suggestions[i].times_seen >= 3
        /\ suggestions[i].last_seen > suggestions[i].first_seen
        /\ last_upsert # NoUpsert
        /\ last_upsert.id = i

\* C6: the suggestions table never holds two rows with the same (brand_id,
\* text), and an upsert of a pair that has a row returns the id of that row
\* and adds no row.
C6_OneRowPerBrandText ==
    /\ [](\A i, j \in DOMAIN suggestions :
            i # j => ~SamePair(suggestions[i], suggestions[j].brand_id,
                               suggestions[j].text))
    /\ [][last_upsert' # last_upsert =>
            LET old == ExistingIds(suggestions, last_upsert'.brand_id,
                                   last_upsert'.text)
            IN /\ last_upsert'.id
                    \in ExistingIds(suggestions', last_upsert'.brand_id,
                                    last_upsert'.text)
               /\ old # {} => /\ last_upsert'.id \in old
                              /\ Len(suggestions') = Len(suggestions)]_vars

\* a scan has just upserted a text that an earlier scan stored
C6_Witness ==
    /\ last_upsert # NoUpsert
    /\ last_upsert.existed
    /\ Len(suggestions) >= 2
    /\ Len(snapshots) >= 2

\* =========================================================== claims: scan
OpsOf(op) == {k \in DOMAIN events : events[k].op = op}

\* C7: in a scan the read of the previous list comes first, then the one
\* insert of the snapshot row, then the upserts, then the diff; the store is
\* written only after the read, the diff runs after the last upsert, and
\* every upserted row carries the snapshot id written by this scan.
C7_ScanStoreOrder ==
    /\ [](/\ OpsOf("read_previous") \subseteq {1}
          /\ OpsOf("add_snapshot") \subseteq {2}
          /\ events # <<>> => events[1].op = "read_previous"
          /\ Len(events) >= 2 =>
                /\ events[2].op = "add_snapshot"
                /\ events[2].arg = snapshot_id
                /\ snapshot_id \in DOMAIN snapshots
                /\ snapshots[snapshot_id].brand_id = brand_id
          /\ \A k \in OpsOf("upsert") :
                k >= 3 /\ events[k].arg = events[2].arg
          /\ \A k \in OpsOf("diff") :
                /\ k = Len(events)
                /\ k = Len(unique_suggestions) + 3
                /\ \A j \in 3..(k - 1) : events[j].op = "upsert")
    /\ [][/\ snapshots' # snapshots =>
                /\ events # <<>>
                /\ events' = Append(events, [op |-> "add_snapshot",
                                             arg |-> Len(snapshots')])
          /\ suggestions' # suggestions =>
                /\ OpsOf("add_snapshot") # {}
                /\ OpsOf("diff") = {}
                /\ events' = Append(events, [op |-> "upsert",
                                             arg |-> snapshot_id])
                /\ suggestions'[last_upsert'.id].snapshot_id = snapshot_id
          /\ diff' # diff /\ diff' # NoDiff =>
                Cardinality(OpsOf("upsert")) = Len(unique_suggestions)]_vars

\* a second scan that has stored two texts and returned
C7_Witness ==
    /\ pc = "returned"
    /\ Len(snapshots) >= 2
    /\ Cardinality(OpsOf("upsert")) >= 2
    /\ OpsOf("diff") # {}

FirstScan == {i \in DOMAIN snapshots : snapshots[i].brand_id = brand_id}
                = {snapshot_id}

\* C8: in every scan of a brand after its first, total_previous is the
\* number of texts the brand's preceding scan stored, disappeared_count the
\* number of those this scan did not return, and new_count the number of
\* texts this scan returned that the preceding scan did not store.
C8_DiffAgainstPrecedingScan ==
    (pc = "returned" /\ ~FirstScan) =>
        LET earlier == {i \in DOMAIN snapshots :
                          snapshots[i].brand_id = brand_id /\ i # snapshot_id}
            preceding == CHOOSE i \in earlier : \A j \in earlier : j <= i
            stored == {r.text : r \in {x \in Range(previous_suggestions) :
                                          x.snapshot_id = preceding}}
            returned == Range(unique_suggestions)
        IN /\ report.diff.total_previous = Cardinality(stored)
           /\ report.diff.disappeared_count = Cardinality(stored \ returned)
           /\ report.diff.new_count = Cardinality(returned \ stored)

\* C9: the first scan of a brand reports nothing previous, nothing
\* disappeared, moved or unchanged, and every one of its texts as new.
C9_FirstScanAllNew ==
    (pc = "returned" /\ FirstScan) =>
        /\ report.diff.total_previous = 0
        /\ report.diff.disappeared_count = 0
        /\ report.diff.position_change_count = 0
        /\ report.diff.unchanged_count = 0
        /\ report.diff.new_count = report.total_suggestions
        /\ report.total_suggestions = Len(unique_suggestions)
        /\ report.snapshot_id = snapshot_id

\* a first scan that stored two texts has returned
C9_Witness ==
    /\ pc = "returned"
    /\ FirstScan
    /\ report.total_suggestions >= 2
    /\ Len(suggestions) >= 2

\* C10: the deduplicated list has one entry per distinct normalised text of
\* the flattened collector results, each entry is the first surface form of
\* its normalised text, the entries are in first-occurrence order, and the
\* list is as long as there are distinct normalised texts.
C10_DedupByNormalizedText ==
    pc = "read_prev" =>
        LET flat == FlatTexts(raw_results)
            norms == {normalize(flat[i]) : i \in DOMAIN flat}
            First(n) == CHOOSE i \in DOMAIN flat :
                            /\ normalize(flat[i]) = n
                            /\ \A j \in 1..(i - 1) : normalize(flat[j]) # n
            u == unique_suggestions
        IN /\ Len(u) = Cardinality(norms)
           /\ \A n \in norms :
                \E k \in DOMAIN u :
                    /\ u[k] = flat[First(n)]
                    /\ \A l \in DOMAIN u : normalize(u[l]) = n => l = k
           /\ \A k, l \in DOMAIN u :
                k < l => First(normalize(u[k])) < First(normalize(u[l]))

\* two queries whose texts differ only in case and whitespace, and a third
\* text: two entries are kept
C10_Witness ==
    /\ pc = "read_prev"
    /\ Len(raw_results) = 2
    /\ Len(FlatTexts(raw_results)) = 3
    /\ Len(unique_suggestions) = 2
    /\ \E i, j \in DOMAIN FlatTexts(raw_results) :
          /\ i < j
          /\ FlatTexts(raw_results)[i] # FlatTexts(raw_results)[j]
          /\ normalize(FlatTexts(raw_results)[i])
                = normalize(FlatTexts(raw_results)[j])

\* C11: in a scan the k-th text of the deduplicated list is upserted with
\* position k: the records built so far and the rows carrying this scan's
\* snapshot id have the positions 1..m, each once, m being the number of
\* upserts done, and m is total_suggestions when the scan returns.
C11_PositionsOneToN ==
    snapshot_id # None =>
        LET m == Len(current_suggestions)
            written == {i \in DOMAIN suggestions :
                          suggestions[i].snapshot_id = snapshot_id}
        IN /\ m <= Len(unique_suggestions)
           /\ \A k \in 1..m :
                /\ current_suggestions[k].text = unique_suggestions[k]
                /\ current_suggestions[k].position = k
                /\ \E i \in written :
                      /\ suggestions[i].text = unique_suggestions[k]
                      /\ suggestions[i].brand_id = brand_id
                      /\ suggestions[i].position = k
           /\ Cardinality(written) = m
           /\ {suggestions[i].position : i \in written} = 1..m
           /\ pc = "returned" =>
                 m = report.total_suggestions

\* a scan after the first has written the positions 1 and 2 and returned
C11_Witness ==
    /\ pc = "returned"
    /\ Len(snapshots) >= 2
    /\ report.total_suggestions = 2
    /\ {suggestions[i].position :
          i \in {j \in DOMAIN suggestions :
                   suggestions[j].snapshot_id = snapshot_id}} = {1, 2}

\* the suggestions of the running scan that the diff reports as new and the
\* scorer as negative
NewAndNegative ==
    {k \in DOMAIN current_suggestions :
        /\ current_suggestions[k].sentiment = "negative"
        /\ \E j \in DOMAIN diff.new_suggestions :
              diff.new_suggestions[j].text = current_suggestions[k].text}

\* C12: the report's new_negatives is the number of suggestions of the scan
\* that are in the diff's new partition and scored negative, and the scan
\* awaits _send_alerts exactly when that number is above zero: never before
\* the diff, and always once the scan is past line 147.
C12_NewNegativesTriggerAlerts ==
    /\ pc = "returned" => report.new_negatives = Cardinality(NewAndNegative)
    /\ alerts_invoked =>
          /\ Cardinality(NewAndNegative) > 0
          /\ pc \in {"alerts", "report", "returned", "raised"}
    /\ pc \in {"alerts", "report", "returned"} =>
          (alerts_invoked <=> Cardinality(NewAndNegative) > 0)

\* a scan that stored a negative text for the first time beside a text
\* the brand already had, alerted one notifier and returned
C12_Witness ==
    /\ pc = "returned"
    /\ report.new_negatives = 1
    /\ report.total_suggestions = 2
    /\ report.diff.new_count = 1
    /\ alerts_invoked
    /\ Len(alert_log) >= 1

\* C15: no exception of a notifier (in format, send or close) makes
\* scan_brand raise, and every configured notifier is gone through even
\* when an earlier one failed.
C15_NotifierFailureNeverFailsScan ==
    /\ alerts_invoked => pc # "raised"
    /\ (alerts_invoked /\ pc \in {"report", "returned"}) =>
          /\ Len(alert_log) = Len(notifiers)
          /\ \A k \in DOMAIN notifiers : alert_log[k].notifier = notifiers[k]

\* ======================================================= claims: scan_all
IsErrorReport(r, b) ==
    r = [brand_id |-> b, brand_name |-> brands[b].name, error |-> TRUE]

\* C13: scan_all reports on the active brands only, each once, in the order
\* of the listing; the report of a brand whose scan_brand raised is the
\* error report (brand_id, brand_name, error = True), that of a brand whose
\* scan_brand returned is the returned report, and scan_all returns only
\* when every listed brand has its report, whatever failed before.
C13_ScanAllOneReportPerActiveBrand ==
    /\ [](all_pc \in {"loop", "returned"} =>
            /\ Range(listing) = {b \in DOMAIN brands : brands[b].active}
            /\ Len(listing) = Cardinality(Range(listing))
            /\ Len(reports) <= Len(listing)
            /\ \A k \in DOMAIN reports : reports[k].brand_id = listing[k]
            /\ all_pc = "returned" => Len(reports) = Len(listing))
    /\ [][(reports' # reports /\ reports' # <<>>) =>
            /\ Len(reports') = Len(reports) + 1
            /\ SubSeq(reports', 1, Len(reports)) = reports
            /\ pc \in {"returned", "raised"}
            /\ pc = "raised" =>
                  IsErrorReport(reports'[Len(reports')], brand_id)
            /\ pc = "returned" =>
                  /\ reports'[Len(reports')] = report
                  /\ report.snapshot_id = Len(snapshots)]_vars

\* scan_all has returned with an inactive brand left out, the first listed
\* brand failed and the second scanned
C13_Witness ==
    /\ all_pc = "returned"
    /\ \E b \in DOMAIN brands : ~brands[b].active
    /\ Len(reports) = 2
    /\ IsErrorReport(reports[1], listing[1])
    /\ reports[2].brand_id = listing[2]
    /\ "snapshot_id" \in DOMAIN reports[2]
    /\ reports[2].snapshot_id = Len(snapshots)
    /\ reports[2].total_suggestions = 1

\* C14: every report of scan_all, from a scan that returned or from the
\* failure path, has the key "error".
C14_ReportHasErrorFlag ==
    \A k \in DOMAIN reports : "error" \in DOMAIN reports[k]

\* the suggestion rows of the brand being scanned that this scan inserted
InsertedByScan ==
    {i \in DOMAIN suggestions :
        /\ suggestions[i].brand_id = brand_id
        /\ suggestions[i].snapshot_id = snapshot_id
        /\ suggestions[i].times_seen = 1}

\* C19: a step of a scan of brand A, in a scan that returns or that raises,
\* changes no snapshot row and no suggestion row of another brand and adds
\* rows for A only; the previous list A's scan reads is exactly A's rows,
\* and its report counts as previous the rows A had before the scan and as
\* new the rows the scan inserted for A, whatever the other brands' rows
\* are.
C19_BrandIsolation ==
    /\ [](/\ \A k \in DOMAIN previous_suggestions :
                previous_suggestions[k].brand_id = brand_id
          /\ pc = "returned" =>
                /\ report.diff.total_previous
                      = Cardinality({i \in DOMAIN suggestions :
                                       suggestions[i].brand_id = brand_id}
                                    \ InsertedByScan)
                /\ report.diff.new_count = Cardinality(InsertedByScan))
    /\ [][/\ \A i \in DOMAIN suggestions :
                /\ i \in DOMAIN suggestions'
                /\ suggestions[i].brand_id # brand_id =>
                      suggestions'[i] = suggestions[i]
          /\ \A i \in DOMAIN suggestions' \ DOMAIN suggestions :
                suggestions'[i].brand_id = brand_id
          /\ \A i \in DOMAIN snapshots :
                i \in DOMAIN snapshots' /\ snapshots'[i] = snapshots[i]
          /\ \A i \in DOMAIN snapshots' \ DOMAIN snapshots :
                snapshots'[i].brand_id = brand_id
          /\ (pc = "read_prev" /\ pc' # pc) =>
                Range(previous_suggestions')
                  = IF \E i \in DOMAIN snapshots :
                          snapshots[i].brand_id = brand_id
                    THEN {suggestions[i] :
                            i \in {j \in DOMAIN suggestions :
                                     suggestions[j].brand_id = brand_id}}
                    ELSE {}]_vars

\* the second scan of a brand has returned with one previous row of its own
\* while another brand has a row with the same text
C19_Witness ==
    /\ pc = "returned"
    /\ report.diff.total_previous = 1
    /\ report.diff.unchanged_count = 1
    /\ \E i, j \in DOMAIN suggestions :
          /\ suggestions[i].brand_id = brand_id
          /\ suggestions[j].brand_id # brand_id
          /\ suggestions[i].text = suggestions[j].text

\* ================================================= claims: collect_brand
HandledFailures == {"HTTPStatusError", "TimeoutException", "ConnectError"}

\* C16: when collect_brand returns, the results have one entry per distinct
\* query variant; the entry of a query that failed with an HTTP status
\* error, a timeout or a connect error has no suggestions and an error
\* marker, the entry of every other query is what its own request
\* returned, without a marker; and collect_brand raises only when a request
\* raised an exception of another kind.
C16_OneEntryPerQuery ==
    /\ collect_pc = "returned" =>
          /\ Len(results) = Cardinality(Range(queries))
          /\ {results[k].query : k \in DOMAIN results} = Range(queries)
          /\ \A i \in DOMAIN tasks :
                \E k \in DOMAIN results :
                    /\ results[k].query = unique_queries[i]
                    /\ results[k].suggestions
                          = IF tasks[i].outcome = "ok"
                            THEN << <<"I">> >> ELSE <<>>
                    /\ ("error" \in DOMAIN results[k])
                          <=> tasks[i].outcome \in HandledFailures
    /\ collect_pc = "raised" =>
          \E i \in DOMAIN tasks : tasks[i].outcome = "other"

\* collect_brand has returned two entries for three query variants, one of
\* them a failure and one with suggestions
C16_Witness ==
    /\ collect_pc = "returned"
    /\ Len(queries) = 3
    /\ Len(results) = 2
    /\ \E k \in DOMAIN results : "error" \in DOMAIN results[k]
    /\ \E k \in DOMAIN results : results[k].suggestions # <<>>

\* C17: at every moment of collect_brand the tasks that have sent their
\* request and not finished their post-request delay are at most
\* max_workers, and they are as many as permits are taken.
C17_InFlightAtMostMaxWorkers ==
    collect_pc \in {"gather", "returned", "raised"} =>
        /\ Cardinality(InFlight) <= max_workers
        /\ Cardinality(InFlight) + sem_value = max_workers

\* both permits are taken, one task waits for a permit and one task is in
\* its delay
C17_Witness ==
    /\ collect_pc = "gather"
    /\ max_workers = 2
    /\ Cardinality(InFlight) = 2
    /\ \E i \in DOMAIN tasks : tasks[i].state = "pending"
    /\ \E i \in DOMAIN tasks : tasks[i].state = "sleep"

\* ======================================= claims: diff engine, continued
\* C26: for every pair of lists, empty ones included, the summary's
\* total_previous and total_current are the lengths of the two inputs, and
\* its four counts are the lengths of the four partition lists.
C26_SummaryArithmetic ==
    pc = "compared" =>
        /\ diff.summary.total_previous = Len(prev_for_diff)
        /\ diff.summary.total_current = Len(curr_for_diff)
        /\ diff.summary.new_count = Len(diff.new_suggestions)
        /\ diff.summary.disappeared_count = Len(diff.disappeared)
        /\ diff.summary.position_change_count = Len(diff.position_changes)
        /\ diff.summary.unchanged_count = Len(diff.unchanged)

\* an empty previous was compared with a current of two records of one key
C26_Witness ==
    /\ pc = "compared"
    /\ prev_for_diff = <<>>
    /\ Len(curr_for_diff) = 2
    /\ Cardinality(Keys(curr_for_diff)) = 1
    /\ diff.summary.total_current = 2
    /\ diff.summary.total_previous = 0

\* list is made of records of source taken at increasing indices
InOrderOf(list, source) ==
    \E f \in [DOMAIN list -> DOMAIN source] :
       /\ \A i, j \in DOMAIN list : i < j => f[i] < f[j]
       /\ \A i \in DOMAIN list : list[i] = source[f[i]]

\* C27: new_suggestions lists its records in the order they have in
\* current, disappeared in the order they have in previous, and
\* position_changes and unchanged in the order of current.
C27_PartitionOrder ==
    pc = "compared" =>
        /\ InOrderOf(diff.new_suggestions, curr_for_diff)
        /\ InOrderOf(diff.disappeared, prev_for_diff)
        /\ InOrderOf(diff.unchanged, curr_for_diff)
        /\ InOrderOf([i \in DOMAIN diff.position_changes |->
                         [text |-> diff.position_changes[i].text,
                          position |->
                             diff.position_changes[i].new_position]],
                     curr_for_diff)

\* two records with different keys are new, the first of current first
C27_Witness ==
    /\ pc = "compared"
    /\ Len(diff.new_suggestions) = 2
    /\ diff.new_suggestions[1].text # diff.new_suggestions[2].text
    /\ diff.new_suggestions[1] = curr_for_diff[1]

\* ================================================ claims: failed scans
\* C28: when collect_brand raises, scan_brand raises and the snapshots and
\* suggestions are as they were before the call; when scan_all then
\* handles the exception, it appends the brand's error report and the
\* store is still as it was.
C28_CollectFailureWritesNothing ==
    [][/\ (pc = "idle" /\ pc' = "raised") =>
            /\ snapshots' = snapshots
            /\ suggestions' = suggestions
       /\ (pc = "raised" /\ snapshot_id = None /\ pc' = "idle") =>
            /\ snapshots' = snapshots
            /\ suggestions' = suggestions
            /\ all_pc = "loop" =>
                  reports' = Append(reports,
                                    [brand_id |-> brand_id,
                                     brand_name |-> brands[brand_id].name,
                                     error |-> TRUE])]_vars

\* a batch has an error report for a brand that has no snapshot, after
\* another brand of the batch was scanned and stored
C28_Witness ==
    /\ all_pc = "loop"
    /\ pc = "idle"
    /\ Len(snapshots) > 0
    /\ \E k \in DOMAIN reports :
          /\ "error" \in DOMAIN reports[k]
          /\ k > 1
          /\ \A i \in DOMAIN snapshots :
                snapshots[i].brand_id # reports[k].brand_id

\* ============================================== claims: new only once
\* the rows of the scanned brand that hold text t
RowsOfText(t) == {i \in DOMAIN suggestions :
                    /\ suggestions[i].brand_id = brand_id
                    /\ suggestions[i].text = t}

C30_ResultsInQueryOrder ==
    collect_pc = "returned" =>
        \A k \in DOMAIN results : results[k].query = unique_queries[k]

\* ======================================= claims: times_seen under scans
SnapshotsOf(b) == {k \in DOMAIN snapshots : snapshots[k].brand_id = b}

\* C21: with scan_brand as the only writer, a row is inserted with
\* times_seen 1, every later change of its times_seen adds 1 and comes with
\* a newer snapshot id (so one scan adds at most 1), times_seen of a row
\* never exceeds the number of snapshots of its brand, and every row that
\* detect_trends returns as persistent negative has times_seen >= 3 and
\* so was stored by at least three scans.
C21_TimesSeenCountsScans ==
    /\ [](\A i \in DOMAIN suggestions :
            suggestions[i].times_seen
               <= Cardinality(SnapshotsOf(suggestions[i].brand_id)))
    /\ [](trends # NoTrends =>
            \A k \in DOMAIN trends.persistent_negative :
               /\ trends.persistent_negative[k].times_seen >= 3
               /\ Cardinality(SnapshotsOf(trends.brand_id)) >= 3)
    /\ [][/\ \A i \in DOMAIN suggestions :
               /\ i \in DOMAIN suggestions'
               /\ suggestions'[i].times_seen # suggestions[i].times_seen =>
                     /\ suggestions'[i].times_seen
                           = suggestions[i].times_seen + 1
                     /\ suggestions'[i].snapshot_id
                           > suggestions[i].snapshot_id
          /\ \A i \in DOMAIN suggestions' \ DOMAIN suggestions :
                suggestions'[i].times_seen = 1]_vars

\* after three scans that all stored one negative text, detect_trends
\* has returned its row
C21_Witness ==
    /\ pc = "idle"
    /\ trends # NoTrends
    /\ Len(trends.persistent_negative) = 1
    /\ Len(snapshots) = 3
    /\ \E i \in DOMAIN suggestions :
          /\ suggestions[i] = trends.persistent_negative[1]
          /\ suggestions[i].times_seen = 3

\* =========================================== claims: windows of trends
\* the elements of a list
ListedRows(list) == {list[k] : k \in DOMAIN list}

\* the negative rows of brand b
NegativeRows(b) ==
    {i \in DOMAIN suggestions :
       /\ suggestions[i].brand_id = b
       /\ suggestions[i].sentiment = "negative"}

\* the instant 7 days before now
WeekAgo == clock - 7 * TicksPerDay

\* C22: what detect_trends returns as rising_negative is, each once, the
\* rows of the brand that are negative and whose first_seen is not before
\* the instant 7 days before the call, whatever the days argument is.
C22_RisingNegativeWindow ==
    [][trends' # trends =>
         LET list == trends'.rising_negative
             rows == {i \in NegativeRows(trends'.brand_id) :
                        suggestions[i].first_seen >= WeekAgo}
         IN /\ ListedRows(list) = {suggestions[i] : i \in rows}
            /\ Len(list) = Cardinality(rows)]_vars

\* called with days = 1, detect_trends has returned as rising a negative
\* row first seen exactly 7 days before, beside a neutral row of today
C22_Witness ==
    /\ trends # NoTrends
    /\ trends.days = 1
    /\ Len(trends.rising_negative) = 1
    /\ trends.rising_negative[1].first_seen = WeekAgo
    /\ trends.rising_negative[1].first_seen < clock - trends.days * TicksPerDay
    /\ \E i \in DOMAIN suggestions :
          /\ suggestions[i].sentiment = "neutral"
          /\ suggestions[i].first_seen = clock

RowsInDays ==
    {i \in DOMAIN suggestions :
       /\ suggestions[i].brand_id = trends.brand_id
       /\ DateOf(suggestions[i].first_seen)
             >= DateOf(clock - trends.days * TicksPerDay)}

RowsFirstSeenOn(d) ==
    {i \in RowsInDays : DateOf(suggestions[i].first_seen) = d}

\* the series has one entry per day on which a row of the window was first
\* seen, in ascending order of date
OneEntryPerFirstSeenDay ==
    LET series == trends.negative_ratio_trend
    IN /\ {series[k].date : k \in DOMAIN series}
            = {DateOf(suggestions[i].first_seen) : i \in RowsInDays}
       /\ \A j, k \in DOMAIN series : j < k => series[j].date < series[k].date

\* C24 as stated: negative_ratio_trend has one entry per calendar day of
\* the window on which a suggestion of the brand was first seen, in
\* ascending order of date, and the ratio of an entry is the number of
\* the negative ones among the suggestions first seen that day divided by
\* their number.
C24_RatioIsQuotient ==
    trends # NoTrends =>
        /\ OneEntryPerFirstSeenDay
        /\ \A k \in DOMAIN trends.negative_ratio_trend :
              LET e == trends.negative_ratio_trend[k]
                  on == RowsFirstSeenOn(e.date)
              IN e.ratio * Cardinality(on)
                   = RatioScale
                       * Cardinality(on \cap NegativeRows(trends.brand_id))

\* C24, amended: as above, with the ratio of an entry being that quotient
\* rounded to four decimal places (the multiple of 0.0001 nearest to it).
C24_RatioIsRoundedQuotient ==
    trends # NoTrends =>
        /\ OneEntryPerFirstSeenDay
        /\ \A k \in DOMAIN trends.negative_ratio_trend :
              LET e == trends.negative_ratio_trend[k]
                  on == RowsFirstSeenOn(e.date)
                  exact == RatioScale
                             * Cardinality(on
                                  \cap NegativeRows(trends.brand_id))
                  got == e.ratio * Cardinality(on)
              IN /\ 2 * (got - exact) <= Cardinality(on)
                 /\ 2 * (exact - got) <= Cardinality(on)

\* the series has one entry, 0.3333, for the day on which the three rows
\* were first seen, one of them negative; one row was seen again on a
\* later day
C24_Witness ==
    /\ trends # NoTrends
    /\ Len(trends.negative_ratio_trend) = 1
    /\ trends.negative_ratio_trend[1].ratio = 3333
    /\ Len(suggestions) = 3
    /\ \E i \in DOMAIN suggestions :
          DateOf(suggestions[i].last_seen) > DateOf(suggestions[i].first_seen)

\* C25: for a brand without suggestion rows, with or without snapshots
\* and whatever the other brands have, detect_trends returns four empty
\* lists.
C25_EmptyBrandEmptyTrends ==
    [][(trends' # trends
          /\ \A i \in DOMAIN suggestions :
                suggestions[i].brand_id # trends'.brand_id) =>
         /\ trends'.rising_negative = <<>>
         /\ trends'.declining_negative = <<>>
         /\ trends'.persistent_negative = <<>>
         /\ trends'.negative_ratio_trend = <<>>]_vars

\* detect_trends has returned four empty lists for a brand that has a
\* snapshot and no row, while the other brand has a negative row
C25_Witness ==
    /\ trends # NoTrends
    /\ trends.rising_negative = <<>>
    /\ trends.negative_ratio_trend = <<>>
    /\ \E k \in DOMAIN snapshots : snapshots[k].brand_id = trends.brand_id
    /\ \A i \in DOMAIN suggestions :
          suggestions[i].brand_id # trends.brand_id
    /\ \E i \in DOMAIN suggestions : suggestions[i].sentiment = "negative"

\* ============================================ claims: concurrent scans
\* the statements between the read of the previous list and the end of
\* the diff
InSegment(t) == frames[t].pc \in {"add_snapshot", "upsert", "diff"}

\* C18: with two scan_brand tasks for one brand on one event loop, the
\* store operations of a task, from its read of the previous list to its
\* diff, are consecutive in the order of all store operations; two tasks
\* are never both between read and diff; and the previous list a task has
\* read holds all the rows of the other task's snapshot or none of them.
C18_ScanSegmentNotInterleaved ==
    /\ \A i, j, k \in DOMAIN store_log :
          (i < j /\ j < k /\ store_log[i].task = store_log[k].task)
             => store_log[j].task = store_log[i].task
    /\ \A t, u \in DOMAIN frames :
          t # u =>
             /\ ~(InSegment(t) /\ InSegment(u))
             /\ InSegment(t) => running = t
             /\ LET seen == {k \in DOMAIN frames[t].previous_suggestions :
                               frames[t].previous_suggestions[k].snapshot_id
                                  = frames[u].snapshot_id}
                IN \/ seen = {}
                   \/ Cardinality(seen) = Len(frames[u].unique_suggestions)

\* both tasks are done; the second read the two rows the first upserted
C18_Witness ==
    /\ \A t \in DOMAIN frames : frames[t].pc = "done"
    /\ frames # <<>>
    /\ \E t \in DOMAIN frames :
          /\ Len(frames[t].previous_suggestions) = 2
          /\ Len(frames[t].unique_suggestions) = 2
    /\ Len(store_log) = 10

\* ============================================ claims: trend detection
\* the rows of brand b that are negative and were seen at least 3 times
PersistentRows(b) ==
    {i \in DOMAIN suggestions :
       /\ suggestions[i].brand_id = b
       /\ suggestions[i].sentiment = "negative"
       /\ suggestions[i].times_seen >= 3}

====
